---- MODULE Spec2Model ----
(***************************************************************************)
(* Node packet pipeline of the UAV network simulator: data generation,     *)
(* transmitting queue, send buffer, CSMA/CA contention, channel inboxes,    *)
(* reception, GPSR routing, ACK wait and retransmission, energy and sleep. *)
(*                                                                         *)
(* Simulated time is abstracted in the pipeline: every timeout of the code *)
(* is a step that may be taken at any moment, except the ACK timer, which  *)
(* (ACK_TIMEOUT = 0.1 s against MAC sends and receptions of microseconds)  *)
(* fires only after the activities that were in progress when it was       *)
(* started have ended.  The outcome of                                     *)
(* the SINR comparison, which depends on positions and interference, is an *)
(* input of the reception step.  The drones sit on the x axis at the       *)
(* coordinates given by coords.                                            *)
(***************************************************************************)
EXTENDS Integers, Sequences, FiniteSets, TLC

----------------------------------------------------------------------------
(* Program constants (scaled to a small network) *)

NUMBER_OF_DRONES == 3
MAX_QUEUE_SIZE == 1
MAX_TTL == NUMBER_OF_DRONES + 1
MAX_RETRANSMISSION_ATTEMPT == 3
SENSING_RANGE == 2
INITIAL_ENERGY == 2
ENERGY_THRESHOLD == 1
PACKET_LIFETIME == 2
TRANSMISSION_ENERGY == 1
MOBILITY_ENERGY == 1

(* Bounds of the exploration *)

MaxDataPackets == 1

\* the number of data packets generated where two packets of one drone are
\* followed
MaxDataIds == 2

\* the number of copies of one data packet that a relay has received
MaxCopies == 3

MaxHelloPackets == 2
MaxDebt == 1
MaxTime == 2
MaxTicks == 13

\* the largest backoff drawn by mac_send, in slots, and the number of
\* interruptions of one countdown
MaxBackoffSlots == 6
MaxInterruptions == 4

\* the number of packets created in a run
MaxCreated == 4

\* the number of messages created by Grad in a run
MaxGradMessages == 4

\* the number of hello packets broadcast with Qldv in a run
MaxQldvHellos == 4

\* the number of packets one drone hands to mac_send, and the number of
\* listeners its sends launch
MaxSends == 3
MaxListeners == 4

\* the number of events taken by each of two runs compared
MaxReplay == 8

\* the largest predicted link lifetime of a call of Opar.next_hop_selection
MaxLifetime == 3

Nodes == 0 .. (NUMBER_OF_DRONES - 1)
NoNode == -1
DataIds == 1 .. MaxDataIds

\* Drone.coords: x coordinate of each drone (y = z = 0)
coords == [n \in Nodes |-> n]

----------------------------------------------------------------------------
VARIABLES
    GLOBAL_DATA_PACKET_ID,          \* drone.py: global data packet id counter
    GL_ID_HELLO_PACKET,             \* config.py: hello id counter (offset from 10000)
    GL_ID_ACK_PACKET,               \* config.py: ack id counter (offset from 20000)
    transmitting_queue,             \* Drone.transmitting_queue, per node
    waiting_list,                   \* Drone.waiting_list, per node
    buffer,                         \* Drone.buffer (simpy.Resource, capacity 1), per node
    channel_states,                 \* channel_states[i] (simpy.Resource, capacity 1), per node
    inbox,                          \* Channel.pipes[i], per node
    number_retransmission_attempt,  \* Packet.number_retransmission_attempt, per data id and node
    creation_time,                  \* Packet.creation_time, per data id
    expired,                        \* data ids whose creation_time + deadline has passed
    gen_pc,                         \* position of generate_data_packet, per node
    feed_pc,                        \* position of feed_packet / packet_coming / mac_send, per node
    sending,                        \* the packet held by packet_coming / mac_send, per node
    recv_pc,                        \* position of receive / packet_reception, per node
    pending_ack,                    \* the ACK built by packet_reception and not yet sent, per node
    chk_pc,                         \* position of check_waiting_list, per node
    mac_process_count,              \* Drone.mac_process_count, per node
    mac_process_finish,             \* Drone.mac_process_finish (indexed by count), per node
    wait_ack_process_count,         \* CsmaCa.wait_ack_process_count, per node
    wait_ack_process_finish,        \* CsmaCa.wait_ack_process_finish (indexed by count), per node
    wait_ack_process_dict,          \* the wait_ack processes that have not terminated, per node
    neighbor_table,                 \* GpsrNeighborTable.neighbor_table (insertion ordered), per node
    have_void_area,                 \* GpsrNeighborTable.have_void_area, per node
    datapacket_generated_num,       \* Metrics.datapacket_generated_num
    datapacket_arrived,             \* Metrics.datapacket_arrived
    control_packet_num,             \* Metrics.control_packet_num
    residual_energy,                \* Drone.residual_energy, per node
    sleep,                          \* Drone.sleep, per node
    now,                            \* env.now: entry_life_time units (SpecTable), receive ticks (SpecChannel)
    updated_time,                   \* second field of the neighbor_table entries, per node and key
    obs_delivered,                  \* observer: receptions of each data id at its destination
    obs_acked,                      \* observer: ACKs sent by the destination for each data id
    frames,                         \* Channel.pipes[i] with item[1] and item[3]: see Item
    collision_num,                  \* Metrics.collision_num
    tx_timeout,                     \* end of the timeout that mac_send yields before Phy, per node
    recv_timeout,                   \* end of the timeout that receive / packet_reception yields, per node
    call,                           \* the inputs of the call of next_hop_selection under study
    outcome                         \* what that call returned or raised

pipeline_vars ==
        << GLOBAL_DATA_PACKET_ID, GL_ID_HELLO_PACKET, GL_ID_ACK_PACKET,
           transmitting_queue, waiting_list, buffer, channel_states, inbox,
           number_retransmission_attempt, creation_time, expired, gen_pc, feed_pc,
           sending, recv_pc, pending_ack, chk_pc, mac_process_count, mac_process_finish,
           wait_ack_process_count, wait_ack_process_finish, wait_ack_process_dict,
           neighbor_table, have_void_area, datapacket_generated_num,
           datapacket_arrived, control_packet_num, residual_energy, sleep,
           now, updated_time, obs_delivered, obs_acked >>

\* the state of the channel in simulated time, followed by SpecChannel only
channel_vars == << frames, collision_num, tx_timeout, recv_timeout >>

\* one call of next_hop_selection, followed by SpecSelection only
selection_vars == << call, outcome >>

vars == << pipeline_vars, channel_vars, selection_vars >>

----------------------------------------------------------------------------
(* Packets *)

\* the value of ack_packet in packets that acknowledge nothing
NoAcked == [id |-> 0, src |-> NoNode, dst |-> NoNode]

NoPacket == [kind |-> "none", id |-> 0, src |-> NoNode, dst |-> NoNode,
             ttl |-> 0, next_hop_id |-> NoNode, ack_packet |-> NoAcked]

\* DataPacket.__init__ followed by transmission_mode = 0 in generate_data_packet
DataPacket(id, src, dst) ==
    [kind |-> "data", id |-> id, src |-> src, dst |-> dst,
     ttl |-> 0, next_hop_id |-> NoNode, ack_packet |-> NoAcked]

\* GpsrHelloPacket.__init__ (cur_position is coords[src], the drones do not move)
GpsrHelloPacket(id, src) ==
    [kind |-> "hello", id |-> id, src |-> src, dst |-> NoNode,
     ttl |-> 0, next_hop_id |-> NoNode, ack_packet |-> NoAcked]

\* AckPacket.__init__: ack_packet identifies the acknowledged data packet
AckPacket(id, src, dst, data) ==
    [kind |-> "ack", id |-> id, src |-> src, dst |-> dst,
     ttl |-> 0, next_hop_id |-> dst,
     ack_packet |-> [id |-> data.id, src |-> data.src, dst |-> data.dst]]

\* increase_ttl called twice for one transmission
increase_ttl_twice(p) == [p EXCEPT !.ttl = @ + 2]

\* Packet.increase_ttl
increase_ttl(p) == [p EXCEPT !.ttl = @ + 1]

\* Packet.get_current_ttl
get_current_ttl(p) == p.ttl

\* transmission_mode: 0 unicast (data), 1 broadcast (hello)
transmission_mode(p) == IF p.kind = "hello" THEN 1 ELSE 0

----------------------------------------------------------------------------
(* simpy.Resource with capacity 1, as used for Drone.buffer and channel_states *)

FreeResource == [users |-> << >>, queue |-> << >>]

\* Resource.request(): granted at once when a slot is free, queued otherwise
request(res, who) ==
    IF Len(res.users) < 1
    THEN [res EXCEPT !.users = Append(@, who)]
    ELSE [res EXCEPT !.queue = Append(@, who)]

\* leaving the "with ... request()" block: release, the longest waiter is granted
release(res, who) ==
    LET rest == SelectSeq(res.users, LAMBDA u : u # who)
    IN  IF Len(res.queue) > 0 /\ Len(rest) < 1
        THEN [users |-> Append(rest, Head(res.queue)), queue |-> Tail(res.queue)]
        ELSE [users |-> rest, queue |-> res.queue]

----------------------------------------------------------------------------
(* Small helpers on sequences *)

Abs(x) == IF x < 0 THEN -x ELSE x

Contains(s, e) == \E i \in 1 .. Len(s) : s[i] = e

\* list.remove(e): removes the first occurrence
RemoveFirst(s, e) ==
    IF ~Contains(s, e) THEN s
    ELSE LET k == CHOOSE i \in 1 .. Len(s) : s[i] = e /\ \A j \in 1 .. (i - 1) : s[j] # e
         IN  SubSeq(s, 1, k - 1) \o SubSeq(s, k + 1, Len(s))

\* faulty variant of SetAdd: a list append instead of a set insertion
SetAdd_as_append(s, e) == Append(s, e)

\* set.add on the insertion-ordered list that stands for a Python set
SetAdd(s, e) == IF Contains(s, e) THEN s ELSE Append(s, e)

----------------------------------------------------------------------------
(* utils/util_function.py *)

\* euclidean_distance for points of the x axis
euclidean_distance(p1, p2) == Abs(p1 - p2)

\* check_channel_availability: FALSE iff another drone within SENSING_RANGE
\* holds its channel_states resource
check_channel_availability(cs, sender) ==
    ~ \E node_id \in Nodes :
         /\ Len(cs[node_id].users) # 0
         /\ node_id # sender
         /\ euclidean_distance(coords[sender], coords[node_id]) < SENSING_RANGE

----------------------------------------------------------------------------
(* routing/gpsr/gpsr_neighbor_table.py *)

\* the table is the sequence of its keys in insertion order; the stored
\* position of key k is coords[k]
neighbor_position(k) == coords[k]

\* add_neighbor: a dictionary assignment keeps the place of an existing key
add_neighbor(table, drone_id) ==
    IF Contains(table, drone_id) THEN table ELSE Append(table, drone_id)

\* GpsrNeighborTable.entry_life_time (1 s), the unit of now
entry_life_time == 1

\* purge: removes the entries whose updated_time + entry_life_time < now;
\* old is the set of keys for which this holds at the time of the call
purge(table, old) == SelectSeq(table, LAMBDA k : k \notin old)

\* math.degrees(math.atan2(0, dx)) for a vector on the x axis
atan2_deg(dx) == IF dx < 0 THEN 180 ELSE 0

\* the angle of best_neighbor's void-area rule, in degrees
angle_deg(me, dst, key) ==
    LET d == atan2_deg(neighbor_position(key) - coords[me]) - atan2_deg(coords[dst] - coords[me])
    IN  IF d < 0 THEN d + 360 ELSE d

\* first loop of best_neighbor: strictly closer neighbours, in key order;
\* acc = << best_id, best_distance, have_void_area >>
RECURSIVE greedy_loop(_, _, _, _)
greedy_loop(table, dst, i, acc) ==
    IF i > Len(table) THEN acc
    ELSE LET temp_distance == euclidean_distance(neighbor_position(table[i]), coords[dst])
         IN  IF temp_distance < acc[2]
             THEN greedy_loop(table, dst, i + 1, << table[i], temp_distance, 0 >>)
             ELSE greedy_loop(table, dst, i + 1, acc)

\* second loop of best_neighbor: smallest angle, later keys win ties;
\* acc = << best_id, best_angle >>
RECURSIVE angle_loop(_, _, _, _, _)
angle_loop(table, me, dst, i, acc) ==
    IF i > Len(table) THEN acc
    ELSE LET a == angle_deg(me, dst, table[i])
         IN  IF a <= acc[2]
             THEN angle_loop(table, me, dst, i + 1, << table[i], a >>)
             ELSE angle_loop(table, me, dst, i + 1, acc)

\* best_neighbor: << best_id, have_void_area after the call >>
best_neighbor(table, void, me, dst) ==
    LET g == greedy_loop(table, dst, 1,
                         << me, euclidean_distance(coords[me], coords[dst]), void >>)
    IN  IF g[3] = 1
        THEN << angle_loop(table, me, dst, 1, << me, 360 >>)[1], g[3] >>
        ELSE << g[1], g[3] >>

----------------------------------------------------------------------------
(* routing/gpsr/gpsr.py *)

\* next_hop_selection: purge, then best_neighbor;
\* result [has_route, packet, enquire, table, void]
next_hop_selection(table, void, me, packet, old) ==
    LET t  == purge(table, old)
        bn == best_neighbor(t, void, me, packet.dst)
    IN  [has_route |-> bn[1] # me,
         packet    |-> IF bn[1] # me THEN [packet EXCEPT !.next_hop_id = bn[1]] ELSE packet,
         enquire   |-> FALSE,
         table     |-> t,
         void      |-> bn[2]]

\* the keys that purge removes from the table of node n at the present time
stale_entries(n) ==
    { k \in Nodes : /\ Contains(neighbor_table[n], k)
                    /\ updated_time[n][k] + entry_life_time < now }

----------------------------------------------------------------------------
(* Initial state: the state after Simulator.__init__, every activity at its *)
(* first suspension                                                         *)

InitProgram ==
    /\ GLOBAL_DATA_PACKET_ID = 0
    /\ GL_ID_HELLO_PACKET = 0
    /\ GL_ID_ACK_PACKET = 0
    /\ transmitting_queue = [n \in Nodes |-> << >>]
    /\ waiting_list = [n \in Nodes |-> << >>]
    /\ buffer = [n \in Nodes |-> FreeResource]
    /\ channel_states = [n \in Nodes |-> FreeResource]
    /\ inbox = [n \in Nodes |-> << >>]
    /\ number_retransmission_attempt = [i \in DataIds |-> [n \in Nodes |-> 0]]
    /\ creation_time = [i \in DataIds |-> 0]
    /\ expired = {}
    /\ gen_pc = [n \in Nodes |-> "waiting"]
    /\ feed_pc = [n \in Nodes |-> "tick"]
    /\ sending = [n \in Nodes |-> NoPacket]
    /\ recv_pc = [n \in Nodes |-> "tick"]
    /\ pending_ack = [n \in Nodes |-> NoPacket]
    /\ chk_pc = [n \in Nodes |-> "waiting"]
    /\ mac_process_count = [n \in Nodes |-> 0]
    /\ mac_process_finish = [n \in Nodes |-> << >>]
    /\ wait_ack_process_count = [n \in Nodes |-> 0]
    /\ wait_ack_process_finish = [n \in Nodes |-> << >>]
    /\ wait_ack_process_dict = [n \in Nodes |-> {}]
    /\ neighbor_table = [n \in Nodes |-> << >>]
    /\ have_void_area = [n \in Nodes |-> 1]
    /\ datapacket_generated_num = 0
    /\ datapacket_arrived = << >>
    /\ control_packet_num = 0
    /\ residual_energy = [n \in Nodes |-> INITIAL_ENERGY]
    /\ sleep = [n \in Nodes |-> FALSE]
    /\ now = 0
    /\ updated_time = [n \in Nodes |-> [k \in Nodes |-> 0]]
    /\ obs_delivered = [i \in DataIds |-> 0]
    /\ obs_acked = [i \in DataIds |-> 0]
    /\ frames = [n \in Nodes |-> << >>]
    /\ collision_num = 0
    /\ tx_timeout = [n \in Nodes |-> 0]
    /\ recv_timeout = [n \in Nodes |-> 0]

\* the test at the top of the generator, feeder, receiver and checker loops
loop_top(n, live) == IF sleep[n] THEN "stopped" ELSE live

----------------------------------------------------------------------------
(* entities/drone.py: generate_data_packet *)

\* faulty variant of generate_data_packet: the packet is queued, the metric
\* datapacket_generated_num is not increased
generate_data_packet_uncounted(n, dst_id) ==
    /\ gen_pc[n] = "waiting"
    /\ dst_id # n
    /\ GLOBAL_DATA_PACKET_ID < MaxDataIds
    /\ GLOBAL_DATA_PACKET_ID' = GLOBAL_DATA_PACKET_ID + 1
    /\ creation_time' = [creation_time EXCEPT ![GLOBAL_DATA_PACKET_ID + 1] = now]
    /\ transmitting_queue' =
          IF Len(transmitting_queue[n]) < MAX_QUEUE_SIZE
          THEN [transmitting_queue EXCEPT
                   ![n] = Append(@, DataPacket(GLOBAL_DATA_PACKET_ID + 1, n, dst_id))]
          ELSE transmitting_queue
    /\ gen_pc' = [gen_pc EXCEPT ![n] = loop_top(n, "waiting")]
    /\ UNCHANGED << now, updated_time, GL_ID_HELLO_PACKET, GL_ID_ACK_PACKET,
                    waiting_list, buffer,
                    channel_states, inbox, number_retransmission_attempt, expired,
                    feed_pc, sending, recv_pc, pending_ack, chk_pc,
                    mac_process_count, mac_process_finish, wait_ack_process_count,
                    wait_ack_process_finish, wait_ack_process_dict, neighbor_table,
                    have_void_area, datapacket_generated_num, datapacket_arrived,
                    control_packet_num, residual_energy, sleep, obs_delivered,
                    obs_acked >>

\* the inter-arrival timeout of node n fires; dst_id is the random destination
generate_data_packet(n, dst_id) ==
    /\ gen_pc[n] = "waiting"
    /\ dst_id # n
    /\ GLOBAL_DATA_PACKET_ID < MaxDataIds
    /\ LET id  == GLOBAL_DATA_PACKET_ID + 1
           pkd == DataPacket(id, n, dst_id)
       IN  /\ GLOBAL_DATA_PACKET_ID' = id
           /\ creation_time' = [creation_time EXCEPT ![id] = now]
           /\ datapacket_generated_num' = datapacket_generated_num + 1
           /\ transmitting_queue' =
                 IF Len(transmitting_queue[n]) < MAX_QUEUE_SIZE
                 THEN [transmitting_queue EXCEPT ![n] = Append(@, pkd)]
                 ELSE transmitting_queue
    /\ gen_pc' = [gen_pc EXCEPT ![n] = loop_top(n, "waiting")]
    /\ UNCHANGED << now, updated_time, GL_ID_HELLO_PACKET, GL_ID_ACK_PACKET,
                    waiting_list, buffer,
                    channel_states, inbox, number_retransmission_attempt, expired,
                    feed_pc, sending, recv_pc, pending_ack, chk_pc,
                    mac_process_count, mac_process_finish, wait_ack_process_count,
                    wait_ack_process_finish, wait_ack_process_dict, neighbor_table,
                    have_void_area, datapacket_arrived, control_packet_num,
                    residual_energy, sleep, obs_delivered, obs_acked >>

\* creation_time + deadline of data packet id passes (simulated time not followed)
packet_expires(id) ==
    /\ id \in 1 .. GLOBAL_DATA_PACKET_ID
    /\ id \notin expired
    /\ expired' = expired \cup {id}
    /\ UNCHANGED << now, creation_time, updated_time, GLOBAL_DATA_PACKET_ID,
                    GL_ID_HELLO_PACKET, GL_ID_ACK_PACKET,
                    transmitting_queue, waiting_list, buffer, channel_states, inbox,
                    number_retransmission_attempt, gen_pc, feed_pc, sending,
                    recv_pc, pending_ack, chk_pc, mac_process_count,
                    mac_process_finish, wait_ack_process_count,
                    wait_ack_process_finish, wait_ack_process_dict, neighbor_table,
                    have_void_area, datapacket_generated_num, datapacket_arrived,
                    control_packet_num, residual_energy, sleep, obs_delivered,
                    obs_acked >>

----------------------------------------------------------------------------
(* routing/gpsr/gpsr.py: broadcast_hello_packet_periodically *)

broadcast_hello_packet(n) ==
    /\ GL_ID_HELLO_PACKET < MaxHelloPackets
    /\ GL_ID_HELLO_PACKET' = GL_ID_HELLO_PACKET + 1
    /\ control_packet_num' = control_packet_num + 1
    /\ transmitting_queue' = [transmitting_queue EXCEPT
                                 ![n] = Append(@, GpsrHelloPacket(GL_ID_HELLO_PACKET + 1, n))]
    /\ UNCHANGED << now, creation_time, updated_time, GLOBAL_DATA_PACKET_ID,
                    GL_ID_ACK_PACKET, waiting_list, buffer,
                    channel_states, inbox, number_retransmission_attempt, expired,
                    gen_pc, feed_pc, sending, recv_pc, pending_ack, chk_pc,
                    mac_process_count, mac_process_finish, wait_ack_process_count,
                    wait_ack_process_finish, wait_ack_process_dict, neighbor_table,
                    have_void_area, datapacket_generated_num, datapacket_arrived,
                    residual_energy, sleep, obs_delivered, obs_acked >>

----------------------------------------------------------------------------
(* entities/drone.py: blocking, feed_packet, packet_coming *)

enable_blocking == 1

\* blocking with enable_blocking = 0
blocking_disabled(n) == FALSE

\* blocking: TRUE iff the last entry of wait_ack_process_finish is 0
blocking(n) ==
    IF enable_blocking = 1
    THEN IF Len(wait_ack_process_finish[n]) = 0
         THEN FALSE
         ELSE wait_ack_process_finish[n][Len(wait_ack_process_finish[n])] = 0
    ELSE FALSE

\* packet_coming(pkd) up to the first suspension of mac_send.  The request of
\* the buffer is granted at once when the buffer is free; then the attempt is
\* counted, the MAC process is registered, and mac_send starts: it finds the
\* channel idle and begins its countdown, or waits for an idle channel.  A
\* request that is not granted leaves packet_coming suspended on the buffer.
packet_coming(n, pkd) ==
    /\ buffer' = [buffer EXCEPT ![n] = request(@, n)]
    /\ sending' = [sending EXCEPT ![n] = pkd]
    /\ IF Len(buffer[n].users) < 1
       THEN /\ number_retransmission_attempt' =
                  IF pkd.kind = "data"
                  THEN [number_retransmission_attempt EXCEPT ![pkd.id][n] = @ + 1]
                  ELSE number_retransmission_attempt
            /\ mac_process_count' = [mac_process_count EXCEPT ![n] = @ + 1]
            /\ mac_process_finish' = [mac_process_finish EXCEPT ![n] = Append(@, 0)]
            /\ feed_pc' = [feed_pc EXCEPT
                              ![n] = IF check_channel_availability(channel_states, n)
                                     THEN "countdown" ELSE "wait_idle"]
       ELSE /\ feed_pc' = [feed_pc EXCEPT ![n] = "request"]
            /\ UNCHANGED << number_retransmission_attempt, mac_process_count,
                            mac_process_finish >>

\* the 10 us tick of feed_packet at node n.  old: the neighbour entries whose
\* lifetime has passed; late: whether the deadline of a control packet at the
\* head of the queue has passed (for a data packet this is expired)
feed_packet(n, old, late) ==
    /\ feed_pc[n] = "tick"
    /\ old \subseteq { neighbor_table[n][i] : i \in 1 .. Len(neighbor_table[n]) }
    /\ IF blocking(n) \/ Len(transmitting_queue[n]) = 0
       THEN \* nothing to dequeue: back to the top of the loop
            /\ old = {} /\ late = FALSE
            /\ feed_pc' = [feed_pc EXCEPT ![n] = loop_top(n, "tick")]
            /\ UNCHANGED << transmitting_queue, waiting_list, buffer, sending,
                            neighbor_table, updated_time, have_void_area,
                            number_retransmission_attempt, mac_process_count,
                            mac_process_finish >>
       ELSE LET packet  == Head(transmitting_queue[n])
                is_data == packet.kind = "data"
                is_late == IF is_data THEN packet.id \in expired ELSE late
                select  == is_data /\ ~is_late
                           /\ number_retransmission_attempt[packet.id][n] < MAX_RETRANSMISSION_ATTEMPT
                r       == next_hop_selection(neighbor_table[n], have_void_area[n], n, packet, old)
                \* the packet handed to packet_coming, NoPacket when there is none
                final   == IF is_late THEN NoPacket
                           ELSE IF ~is_data THEN packet
                           ELSE IF select /\ r.has_route THEN r.packet
                           ELSE NoPacket
                enters  == final # NoPacket /\ ~sleep[n]
            IN  /\ (is_data => late = FALSE)
                /\ (~select => old = {})
                /\ transmitting_queue' = [transmitting_queue EXCEPT ![n] = Tail(@)]
                /\ neighbor_table' = IF select THEN [neighbor_table EXCEPT ![n] = r.table]
                                     ELSE neighbor_table
                /\ updated_time' = IF select
                                   THEN [updated_time EXCEPT
                                            ![n] = [k \in Nodes |-> IF k \in old THEN 0 ELSE @[k]]]
                                   ELSE updated_time
                /\ have_void_area' = IF select THEN [have_void_area EXCEPT ![n] = r.void]
                                     ELSE have_void_area
                /\ waiting_list' = IF select /\ ~r.has_route
                                   THEN [waiting_list EXCEPT ![n] = Append(@, packet)]
                                   ELSE waiting_list
                /\ IF enters
                   THEN packet_coming(n, final)
                   ELSE /\ feed_pc' = [feed_pc EXCEPT ![n] = loop_top(n, "tick")]
                        /\ UNCHANGED << buffer, sending, number_retransmission_attempt,
                                        mac_process_count, mac_process_finish >>
    /\ UNCHANGED << now, creation_time, GLOBAL_DATA_PACKET_ID, GL_ID_HELLO_PACKET,
                    GL_ID_ACK_PACKET,
                    channel_states, inbox, expired, gen_pc, recv_pc, pending_ack,
                    chk_pc, wait_ack_process_count, wait_ack_process_finish,
                    wait_ack_process_dict, datapacket_generated_num,
                    datapacket_arrived, control_packet_num, residual_energy, sleep,
                    obs_delivered, obs_acked >>

----------------------------------------------------------------------------
(* mac/csma_ca.py: mac_send, wait_idle_channel, listen *)

\* wait_idle_channel returns after waiting: the channel is sensed idle, the
\* countdown of DIFS + backoff starts and a listener is launched
wait_idle_channel(n) ==
    /\ feed_pc[n] = "wait_idle"
    /\ check_channel_availability(channel_states, n)
    /\ feed_pc' = [feed_pc EXCEPT ![n] = "countdown"]
    /\ UNCHANGED << now, creation_time, updated_time, GLOBAL_DATA_PACKET_ID,
                    GL_ID_HELLO_PACKET, GL_ID_ACK_PACKET,
                    transmitting_queue, waiting_list, buffer, channel_states, inbox,
                    number_retransmission_attempt, expired, gen_pc, sending, recv_pc,
                    pending_ack, chk_pc, mac_process_count, mac_process_finish,
                    wait_ack_process_count, wait_ack_process_finish,
                    wait_ack_process_dict, neighbor_table, have_void_area,
                    datapacket_generated_num, datapacket_arrived, control_packet_num,
                    residual_energy, sleep, obs_delivered, obs_acked >>

\* listen finds the channel busy and interrupts the countdown; mac_send
\* handles the interrupt and waits for an idle channel again
listen(n) ==
    /\ feed_pc[n] = "countdown"
    /\ mac_process_finish[n][mac_process_count[n]] = 0
    /\ ~check_channel_availability(channel_states, n)
    /\ feed_pc' = [feed_pc EXCEPT ![n] = "wait_idle"]
    /\ UNCHANGED << now, creation_time, updated_time, GLOBAL_DATA_PACKET_ID,
                    GL_ID_HELLO_PACKET, GL_ID_ACK_PACKET,
                    transmitting_queue, waiting_list, buffer, channel_states, inbox,
                    number_retransmission_attempt, expired, gen_pc, sending, recv_pc,
                    pending_ack, chk_pc, mac_process_count, mac_process_finish,
                    wait_ack_process_count, wait_ack_process_finish,
                    wait_ack_process_dict, neighbor_table, have_void_area,
                    datapacket_generated_num, datapacket_arrived, control_packet_num,
                    residual_energy, sleep, obs_delivered, obs_acked >>

\* the countdown ends: the send is marked finished, the channel resource is
\* taken, a unicast packet arms wait_ack, the TTL is increased
mac_send(n) ==
    /\ feed_pc[n] = "countdown"
    /\ LET pkd == increase_ttl(sending[n])
       IN  /\ mac_process_finish' = [mac_process_finish EXCEPT ![n][mac_process_count[n]] = 1]
           /\ channel_states' = [channel_states EXCEPT ![n] = request(@, n)]
           /\ IF transmission_mode(sending[n]) = 0
              THEN /\ wait_ack_process_count' = [wait_ack_process_count EXCEPT ![n] = @ + 1]
                   /\ wait_ack_process_dict' =
                         [wait_ack_process_dict EXCEPT
                             ![n] = @ \cup {[key |-> wait_ack_process_count[n] + 1, pkd |-> pkd,
                                              ripe |-> FALSE]}]
                   /\ wait_ack_process_finish' = [wait_ack_process_finish EXCEPT ![n] = Append(@, 0)]
              ELSE UNCHANGED << wait_ack_process_count, wait_ack_process_dict,
                                wait_ack_process_finish >>
           /\ sending' = [sending EXCEPT ![n] = pkd]
    /\ feed_pc' = [feed_pc EXCEPT ![n] = "transmit"]
    /\ UNCHANGED << now, creation_time, updated_time, GLOBAL_DATA_PACKET_ID,
                    GL_ID_HELLO_PACKET, GL_ID_ACK_PACKET,
                    transmitting_queue, waiting_list, buffer, inbox,
                    number_retransmission_attempt, expired, gen_pc, recv_pc,
                    pending_ack, chk_pc, mac_process_count, neighbor_table,
                    have_void_area, datapacket_generated_num, datapacket_arrived,
                    control_packet_num, residual_energy, sleep, obs_delivered,
                    obs_acked >>

----------------------------------------------------------------------------
(* phy/channel.py and the injection made by Phy *)

\* an inbox record: the packet and its transmitter (records are dropped from
\* the model's inbox when receive marks them processed)
Frame(packet, transmitter) == [packet |-> packet, transmitter |-> transmitter]

\* Channel.unicast_put.  pipes is a defaultdict(list): self.pipes[dst_id] makes
\* an empty inbox for a dst_id that has none
unicast_put(boxes, value, dst_id) ==
    [key \in DOMAIN boxes \cup {dst_id} |->
        IF key # dst_id THEN boxes[key]
        ELSE IF key \in DOMAIN boxes THEN Append(boxes[key], value)
        ELSE << value >>]

\* Channel.broadcast_put: a copy to every inbox, the sender's included
broadcast_put(boxes, value) == [key \in DOMAIN boxes |-> Append(boxes[key], value)]

\* Channel.multicast_put: a copy to the inbox of each dst_id of the list that
\* has one
RECURSIVE multicast_put(_, _, _)
multicast_put(boxes, value, dst_id_list) ==
    IF dst_id_list = << >> THEN boxes
    ELSE multicast_put(IF Head(dst_id_list) \in DOMAIN boxes
                       THEN [boxes EXCEPT ![Head(dst_id_list)] = Append(@, value)]
                       ELSE boxes,
                       value, Tail(dst_id_list))

\* the number of logging.error calls of unicast_put, broadcast_put and
\* multicast_put
unicast_put_errors(boxes, dst_id) == IF dst_id \notin DOMAIN boxes THEN 1 ELSE 0

broadcast_put_errors(boxes) == IF DOMAIN boxes = {} THEN 1 ELSE 0

multicast_put_errors(boxes, dst_id_list) ==
    Cardinality({ i \in 1 .. Len(dst_id_list) : dst_id_list[i] \notin DOMAIN boxes })

\* Phy.unicast: the record handed to the channel
unicast(boxes, packet, me, next_hop_id) == unicast_put(boxes, Frame(packet, me), next_hop_id)

\* Phy.broadcast: the record handed to the channel
broadcast(boxes, packet, me) == broadcast_put(boxes, Frame(packet, me))

\* Phy.unicast / Phy.broadcast: residual_energy -= energy_consumption
consume(energy, me, amount) == [energy EXCEPT ![me] = @ - amount]

\* faulty variant of transmit_done: packet_coming ends without giving the
\* buffer back
transmit_done_keeps_buffer(n) ==
    /\ feed_pc[n] = "transmit"
    /\ Contains(channel_states[n].users, n)
    /\ inbox' = IF transmission_mode(sending[n]) = 0
                THEN unicast(inbox, sending[n], n, sending[n].next_hop_id)
                ELSE broadcast(inbox, sending[n], n)
    /\ residual_energy' = consume(residual_energy, n, TRANSMISSION_ENERGY)
    /\ channel_states' = [channel_states EXCEPT ![n] = release(@, n)]
    /\ sending' = [sending EXCEPT ![n] = NoPacket]
    /\ feed_pc' = [feed_pc EXCEPT ![n] = loop_top(n, "tick")]
    /\ UNCHANGED << now, creation_time, updated_time, GLOBAL_DATA_PACKET_ID,
                    GL_ID_HELLO_PACKET, GL_ID_ACK_PACKET,
                    transmitting_queue, waiting_list, buffer,
                    number_retransmission_attempt, expired, gen_pc, recv_pc,
                    pending_ack, chk_pc, mac_process_count, mac_process_finish,
                    wait_ack_process_count, wait_ack_process_finish,
                    wait_ack_process_dict, neighbor_table, have_void_area,
                    datapacket_generated_num, datapacket_arrived, control_packet_num,
                    sleep, obs_delivered, obs_acked >>

\* the transmission time of mac_send ends: the frame is injected, the channel
\* resource and then the buffer are released, feed_packet is back at its loop
transmit_done(n) ==
    /\ feed_pc[n] = "transmit"
    /\ Contains(channel_states[n].users, n)
    /\ inbox' = IF transmission_mode(sending[n]) = 0
                THEN unicast(inbox, sending[n], n, sending[n].next_hop_id)
                ELSE broadcast(inbox, sending[n], n)
    /\ residual_energy' = consume(residual_energy, n, TRANSMISSION_ENERGY)
    /\ channel_states' = [channel_states EXCEPT ![n] = release(@, n)]
    /\ buffer' = [buffer EXCEPT ![n] = release(@, n)]
    /\ sending' = [sending EXCEPT ![n] = NoPacket]
    /\ feed_pc' = [feed_pc EXCEPT ![n] = loop_top(n, "tick")]
    /\ UNCHANGED << now, creation_time, updated_time, GLOBAL_DATA_PACKET_ID,
                    GL_ID_HELLO_PACKET, GL_ID_ACK_PACKET,
                    transmitting_queue, waiting_list, number_retransmission_attempt,
                    expired, gen_pc, recv_pc, pending_ack, chk_pc, mac_process_count,
                    mac_process_finish, wait_ack_process_count,
                    wait_ack_process_finish, wait_ack_process_dict, neighbor_table,
                    have_void_area, datapacket_generated_num, datapacket_arrived,
                    control_packet_num, sleep, obs_delivered, obs_acked >>

----------------------------------------------------------------------------
(* mac/csma_ca.py: wait_ack *)

\* ACK_TIMEOUT taken to be shorter than the turnaround of an ACK
no_short_activity_ignored == TRUE

\* no activity that lasts microseconds is in progress: no MAC send, no
\* SIFS wait, no frame waiting for the next tick of receive, no packet that the
\* next tick of feed_packet would take
no_short_activity ==
    \A n \in Nodes :
        /\ feed_pc[n] \in {"tick", "stopped", "request"}
        /\ (feed_pc[n] = "tick" => (blocking(n) \/ Len(transmitting_queue[n]) = 0))
        /\ recv_pc[n] # "sifs"
        /\ (recv_pc[n] = "tick" => Len(inbox[n]) = 0)

\* ACK_TIMEOUT (0.1 s) of the pending wait_ack processes runs out: it outlasts
\* every activity that was in progress when the processes were launched
ack_timeout_elapses ==
    /\ no_short_activity
    /\ \E n \in Nodes : \E w \in wait_ack_process_dict[n] : ~w.ripe
    /\ wait_ack_process_dict' =
          [n \in Nodes |-> { [w EXCEPT !.ripe = TRUE] : w \in wait_ack_process_dict[n] }]
    /\ UNCHANGED << now, creation_time, updated_time, GLOBAL_DATA_PACKET_ID,
                    GL_ID_HELLO_PACKET, GL_ID_ACK_PACKET,
                    transmitting_queue, waiting_list, buffer, channel_states, inbox,
                    number_retransmission_attempt, expired, gen_pc, feed_pc, sending,
                    recv_pc, pending_ack, chk_pc, mac_process_count,
                    mac_process_finish, wait_ack_process_count,
                    wait_ack_process_finish, neighbor_table, have_void_area,
                    datapacket_generated_num, datapacket_arrived, control_packet_num,
                    residual_energy, sleep, obs_delivered, obs_acked >>

\* the timeout of the wait_ack process w of node n fires
wait_ack(n, w) ==
    /\ w \in wait_ack_process_dict[n]
    /\ w.ripe
    /\ wait_ack_process_finish' =
          [wait_ack_process_finish EXCEPT ![n][wait_ack_process_count[n]] = 1]
    /\ transmitting_queue' =
          IF number_retransmission_attempt[w.pkd.id][n] < MAX_RETRANSMISSION_ATTEMPT
          THEN [transmitting_queue EXCEPT ![n] = Append(@, w.pkd)]
          ELSE transmitting_queue
    /\ wait_ack_process_dict' = [wait_ack_process_dict EXCEPT ![n] = @ \ {w}]
    /\ UNCHANGED << now, creation_time, updated_time, GLOBAL_DATA_PACKET_ID,
                    GL_ID_HELLO_PACKET, GL_ID_ACK_PACKET,
                    waiting_list, buffer, channel_states, inbox,
                    number_retransmission_attempt, expired, gen_pc, feed_pc, sending,
                    recv_pc, pending_ack, chk_pc, mac_process_count,
                    mac_process_finish, wait_ack_process_count, neighbor_table,
                    have_void_area, datapacket_generated_num, datapacket_arrived,
                    control_packet_num, residual_energy, sleep, obs_delivered,
                    obs_acked >>

----------------------------------------------------------------------------
(* entities/drone.py: receive; routing/gpsr/gpsr.py: packet_reception *)

\* Gpsr.packet_reception of packet pkd, received from src_drone_id, up to its
\* first suspension
packet_reception(n, pkd, src_drone_id) ==
    CASE pkd.kind = "hello" ->
            /\ neighbor_table' = [neighbor_table EXCEPT ![n] = add_neighbor(@, pkd.src)]
            /\ updated_time' = [updated_time EXCEPT ![n][pkd.src] = now]
            /\ recv_pc' = recv_pc
            /\ UNCHANGED << GL_ID_ACK_PACKET, transmitting_queue, pending_ack,
                            wait_ack_process_dict, datapacket_arrived, obs_delivered >>
      [] pkd.kind = "data" ->
            /\ IF pkd.dst = n
               THEN /\ datapacket_arrived' = SetAdd(datapacket_arrived, pkd.id)
                    /\ obs_delivered' = [obs_delivered EXCEPT ![pkd.id] = @ + 1]
                    /\ UNCHANGED transmitting_queue
               ELSE /\ transmitting_queue' = [transmitting_queue EXCEPT ![n] = Append(@, pkd)]
                    /\ UNCHANGED << datapacket_arrived, obs_delivered >>
            /\ GL_ID_ACK_PACKET' = GL_ID_ACK_PACKET + 1
            /\ pending_ack' = [pending_ack EXCEPT
                                  ![n] = AckPacket(GL_ID_ACK_PACKET + 1, n, src_drone_id, pkd)]
            /\ recv_pc' = [recv_pc EXCEPT ![n] = "sifs"]
            /\ UNCHANGED << wait_ack_process_dict, neighbor_table, updated_time >>
      [] pkd.kind = "ack" ->
            LET key2 == wait_ack_process_count[n]
            IN  /\ IF key2 = 0
                   THEN \* wait_ack_process_finish has no such key
                        /\ recv_pc' = [recv_pc EXCEPT ![n] = "error"]
                        /\ UNCHANGED wait_ack_process_dict
                   ELSE /\ recv_pc' = recv_pc
                        /\ wait_ack_process_dict' =
                              IF wait_ack_process_finish[n][key2] = 0
                              THEN [wait_ack_process_dict EXCEPT
                                       ![n] = { w \in @ : w.key # key2 }]
                              ELSE wait_ack_process_dict
                /\ UNCHANGED << GL_ID_ACK_PACKET, transmitting_queue, pending_ack,
                                neighbor_table, updated_time, datapacket_arrived,
                                obs_delivered >>

\* the 5 us tick of receive at node n.  complete: the inbox records whose
\* transmission has ended by now; winner: the record of maximum SINR when that
\* SINR reaches SNR_THRESHOLD, 0 otherwise
receive(n, complete, winner) ==
    /\ recv_pc[n] = "tick"
    /\ IF sleep[n]
       THEN /\ complete = {} /\ winner = 0
            /\ recv_pc' = [recv_pc EXCEPT ![n] = "stopped"]
            /\ UNCHANGED << GL_ID_ACK_PACKET, transmitting_queue, inbox, pending_ack,
                            wait_ack_process_dict, neighbor_table, updated_time,
                            datapacket_arrived, obs_delivered >>
       ELSE /\ complete # {}
            /\ complete \subseteq 1 .. Len(inbox[n])
            /\ winner \in complete \cup {0}
            /\ LET rest   == LET keep == { i \in 1 .. Len(inbox[n]) : i \notin complete }
                                 f[i \in 0 .. Len(inbox[n])] ==
                                     IF i = 0 THEN << >>
                                     ELSE IF i \in keep THEN Append(f[i - 1], inbox[n][i])
                                     ELSE f[i - 1]
                             IN  f[Len(inbox[n])]
                   handed == winner # 0 /\ get_current_ttl(inbox[n][winner].packet) < MAX_TTL
                   pkd    == IF winner # 0 THEN inbox[n][winner].packet ELSE NoPacket
                   sender == IF winner # 0 THEN inbox[n][winner].transmitter ELSE NoNode
               IN  /\ inbox' = [inbox EXCEPT ![n] = rest]
                   /\ IF ~handed
                      THEN /\ recv_pc' = recv_pc
                           /\ UNCHANGED << GL_ID_ACK_PACKET, transmitting_queue,
                                           pending_ack, wait_ack_process_dict,
                                           neighbor_table, updated_time,
                                           datapacket_arrived, obs_delivered >>
                      ELSE packet_reception(n, pkd, sender)
    /\ UNCHANGED << now, creation_time, GLOBAL_DATA_PACKET_ID, GL_ID_HELLO_PACKET,
                    waiting_list, buffer,
                    channel_states, number_retransmission_attempt, expired, gen_pc,
                    feed_pc, sending, chk_pc, mac_process_count, mac_process_finish,
                    wait_ack_process_count, wait_ack_process_finish, have_void_area,
                    datapacket_generated_num, control_packet_num, residual_energy,
                    sleep, obs_acked >>

\* faulty variant of send_ack: the ACK built by packet_reception is dropped
send_ack_dropped(n) ==
    /\ recv_pc[n] = "sifs"
    /\ pending_ack' = [pending_ack EXCEPT ![n] = NoPacket]
    /\ recv_pc' = [recv_pc EXCEPT ![n] = "tick"]
    /\ UNCHANGED << now, creation_time, updated_time, GLOBAL_DATA_PACKET_ID,
                    GL_ID_HELLO_PACKET, GL_ID_ACK_PACKET,
                    transmitting_queue, waiting_list, buffer, channel_states, inbox,
                    number_retransmission_attempt, expired, gen_pc, feed_pc, sending,
                    chk_pc, mac_process_count, mac_process_finish,
                    wait_ack_process_count, wait_ack_process_finish,
                    wait_ack_process_dict, neighbor_table, have_void_area,
                    datapacket_generated_num, datapacket_arrived, control_packet_num,
                    residual_energy, sleep, obs_delivered, obs_acked >>

\* SIFS_DURATION after a data reception: the ACK is sent without contention
\* unless the node sleeps; packet_reception ends after the ACK's airtime
send_ack(n) ==
    /\ recv_pc[n] = "sifs"
    /\ IF ~sleep[n]
       THEN /\ inbox' = unicast(inbox, increase_ttl(pending_ack[n]), n, pending_ack[n].dst)
            /\ residual_energy' = consume(residual_energy, n, TRANSMISSION_ENERGY)
            /\ obs_acked' =
                  IF pending_ack[n].ack_packet.dst = n
                  THEN [obs_acked EXCEPT ![pending_ack[n].ack_packet.id] = @ + 1]
                  ELSE obs_acked
       ELSE UNCHANGED << inbox, residual_energy, obs_acked >>
    /\ pending_ack' = [pending_ack EXCEPT ![n] = NoPacket]
    /\ recv_pc' = [recv_pc EXCEPT ![n] = "tick"]
    /\ UNCHANGED << now, creation_time, updated_time, GLOBAL_DATA_PACKET_ID,
                    GL_ID_HELLO_PACKET, GL_ID_ACK_PACKET,
                    transmitting_queue, waiting_list, buffer, channel_states,
                    number_retransmission_attempt, expired, gen_pc, feed_pc, sending,
                    chk_pc, mac_process_count, mac_process_finish,
                    wait_ack_process_count, wait_ack_process_finish,
                    wait_ack_process_dict, neighbor_table, have_void_area,
                    datapacket_generated_num, datapacket_arrived, control_packet_num,
                    sleep, obs_delivered >>

----------------------------------------------------------------------------
(* routing/gpsr/gpsr.py: check_waiting_list *)

\* the for loop over my_drone.waiting_list; i is the position of the iterator,
\* acc = << waiting_list, transmitting_queue, have_void_area, the next hops
\* that best_neighbor returned >>
RECURSIVE check_loop(_, _, _)
check_loop(n, i, acc) ==
    IF i > Len(acc[1]) THEN acc
    ELSE LET waiting_pkd == acc[1][i]
         IN  IF waiting_pkd.id \notin expired
             THEN \* env.now < creation_time + deadline
                  check_loop(n, i + 1, << RemoveFirst(acc[1], waiting_pkd), acc[2], acc[3],
                                          acc[4] >>)
             ELSE LET bn == best_neighbor(neighbor_table[n], acc[3], n, waiting_pkd.dst)
                  IN  IF bn[1] # n
                      THEN check_loop(n, i + 1, << RemoveFirst(acc[1], waiting_pkd),
                                                   Append(acc[2], waiting_pkd), bn[2],
                                                   acc[4] \cup {bn[1]} >>)
                      ELSE check_loop(n, i + 1, << acc[1], acc[2], bn[2], acc[4] >>)

\* the 0.6 s timeout of check_waiting_list at node n fires
check_waiting_list(n) ==
    /\ chk_pc[n] = "waiting"
    /\ LET r == check_loop(n, 1, << waiting_list[n], transmitting_queue[n],
                                 have_void_area[n], {} >>)
       IN  /\ waiting_list' = [waiting_list EXCEPT ![n] = r[1]]
           /\ transmitting_queue' = [transmitting_queue EXCEPT ![n] = r[2]]
           /\ have_void_area' = [have_void_area EXCEPT ![n] = r[3]]
    /\ chk_pc' = [chk_pc EXCEPT ![n] = loop_top(n, "waiting")]
    /\ UNCHANGED << now, creation_time, updated_time, GLOBAL_DATA_PACKET_ID,
                    GL_ID_HELLO_PACKET, GL_ID_ACK_PACKET, buffer,
                    channel_states, inbox, number_retransmission_attempt, expired,
                    gen_pc, feed_pc, sending, recv_pc, pending_ack, mac_process_count,
                    mac_process_finish, wait_ack_process_count,
                    wait_ack_process_finish, wait_ack_process_dict, neighbor_table,
                    datapacket_generated_num, datapacket_arrived, control_packet_num,
                    residual_energy, sleep, obs_delivered, obs_acked >>

----------------------------------------------------------------------------
(* mobility/gauss_markov_3d.py: mobility_update; entities/drone.py: energy_monitor *)

\* the position update interval ends for every drone: each subtracts the
\* energy consumed during the interval
mobility_update ==
    /\ \A n \in Nodes : residual_energy[n] > 0 - MaxDebt
    /\ residual_energy' = [n \in Nodes |-> residual_energy[n] - MOBILITY_ENERGY]
    /\ UNCHANGED << now, creation_time, updated_time, GLOBAL_DATA_PACKET_ID,
                    GL_ID_HELLO_PACKET, GL_ID_ACK_PACKET,
                    transmitting_queue, waiting_list, buffer, channel_states, inbox,
                    number_retransmission_attempt, expired, gen_pc, feed_pc, sending,
                    recv_pc, pending_ack, chk_pc, mac_process_count,
                    mac_process_finish, wait_ack_process_count,
                    wait_ack_process_finish, wait_ack_process_dict, neighbor_table,
                    have_void_area, datapacket_generated_num, datapacket_arrived,
                    control_packet_num, sleep, obs_delivered, obs_acked >>

\* the 0.1 s report of energy_monitor at node n finds the energy at or below
\* the threshold (the activity is not launched by Drone.__init__)
energy_monitor(n) ==
    /\ residual_energy[n] <= ENERGY_THRESHOLD
    /\ ~sleep[n]
    /\ sleep' = [sleep EXCEPT ![n] = TRUE]
    /\ UNCHANGED << now, creation_time, updated_time, GLOBAL_DATA_PACKET_ID,
                    GL_ID_HELLO_PACKET, GL_ID_ACK_PACKET,
                    transmitting_queue, waiting_list, buffer, channel_states, inbox,
                    number_retransmission_attempt, expired, gen_pc, feed_pc, sending,
                    recv_pc, pending_ack, chk_pc, mac_process_count,
                    mac_process_finish, wait_ack_process_count,
                    wait_ack_process_finish, wait_ack_process_dict, neighbor_table,
                    have_void_area, datapacket_generated_num, datapacket_arrived,
                    control_packet_num, residual_energy, obs_delivered, obs_acked >>

----------------------------------------------------------------------------
\* one entry_life_time of simulated time passes; the data packets whose
\* deadline is reached are expired from now on
clock_tick ==
    /\ now < MaxTime
    /\ now' = now + 1
    /\ expired' = { id \in 1 .. GLOBAL_DATA_PACKET_ID :
                        ~(now' < creation_time[id] + PACKET_LIFETIME) }
    /\ UNCHANGED << GLOBAL_DATA_PACKET_ID, GL_ID_HELLO_PACKET, GL_ID_ACK_PACKET,
                    transmitting_queue, waiting_list, buffer, channel_states, inbox,
                    number_retransmission_attempt, creation_time, gen_pc, feed_pc, sending,
                    recv_pc, pending_ack, chk_pc, mac_process_count,
                    mac_process_finish, wait_ack_process_count,
                    wait_ack_process_finish, wait_ack_process_dict, neighbor_table,
                    have_void_area, datapacket_generated_num, datapacket_arrived,
                    control_packet_num, residual_energy, sleep, updated_time,
                    obs_delivered, obs_acked >>

----------------------------------------------------------------------------
(* entities/drone.py: receive, update_inbox, trigger; phy/large_scale_fading.py: *)
(* the channel in simulated time.  One unit of now is one tick of receive    *)
(* (5 us); packet lengths are the numbers of ticks that their bits take.     *)

\* config.DATA_PACKET_LENGTH, HELLO_PACKET_LENGTH, ACK_PACKET_LENGTH and
\* SIFS_DURATION, over BIT_RATE, in ticks of receive
DATA_PACKET_LENGTH == 3
HELLO_PACKET_LENGTH == 2
ACK_PACKET_LENGTH == 1
SIFS_DURATION == 1

\* config.TRANSMITTING_POWER and config.NOISE_POWER in units of the noise
\* power; the path loss at distance 1 divides the power by PATH_LOSS_AT_1;
\* config.SNR_THRESHOLD (6 dB) in thousandths of the linear ratio
TRANSMITTING_POWER == 16000
NOISE_POWER == 1
PATH_LOSS_AT_1 == 16
SNR_THRESHOLD == 3981

\* packet.packet_length / config.BIT_RATE * 1e6
transmitting_time(p) ==
    CASE p.kind = "data"  -> DATA_PACKET_LENGTH
      [] p.kind = "hello" -> HELLO_PACKET_LENGTH
      [] OTHER            -> ACK_PACKET_LENGTH

\* a record of frames[i]: the transmitter, item[1] (insertion_time), the
\* transmitting_time of item[0] and item[3] (processed); id and kind name the
\* packet, handed records that receive passed the packet to packet_reception
Item(packet, transmitter) ==
    [id |-> packet.id, kind |-> packet.kind, transmitter |-> transmitter,
     insertion_time |-> now, transmitting_time |-> transmitting_time(packet),
     processed |-> 0, handed |-> FALSE]

\* Channel.unicast_put / broadcast_put on the timed records
put(boxes, value, dsts) ==
    [key \in Nodes |-> IF key \in dsts THEN Append(boxes[key], value) ELSE boxes[key]]

\* the for loop of update_inbox over the list box at time t: a record is
\* removed when it is processed and older than twice the transmitting time of
\* a data packet; the list iterator then skips the record that follows (skip)
update_inbox(box, t) ==
    LET f[i \in 0 .. Len(box)] ==
            IF i = 0 THEN [kept |-> << >>, skip |-> FALSE]
            ELSE IF f[i - 1].skip
                 THEN [kept |-> Append(f[i - 1].kept, box[i]), skip |-> FALSE]
                 ELSE IF /\ box[i].insertion_time + 2 * DATA_PACKET_LENGTH < t
                         /\ box[i].processed = 1
                      THEN [kept |-> f[i - 1].kept, skip |-> TRUE]
                      ELSE [kept |-> Append(f[i - 1].kept, box[i]), skip |-> FALSE]
    IN  f[Len(box)].kept

\* trigger: the positions of the unprocessed records whose transmission is complete
trigger(box, t) ==
    { i \in 1 .. Len(box) :
        box[i].processed = 0 /\ t >= box[i].insertion_time + box[i].transmitting_time }

\* has_intersection(interval, interval2) of utils.util_function: whether two
\* intervals that share one end point only intersect is given by touching
has_intersection(f, g, touching) ==
    LET lo == IF f.insertion_time > g.insertion_time THEN f.insertion_time
              ELSE g.insertion_time
        e1 == f.insertion_time + f.transmitting_time
        e2 == g.insertion_time + g.transmitting_time
        hi == IF e1 < e2 THEN e1 ELSE e2
    IN  lo < hi \/ (touching /\ lo = hi)

\* general_path_loss applied to the transmit power
receive_power(distance) ==
    IF distance # 0 THEN TRANSMITTING_POWER \div (PATH_LOSS_AT_1 * distance * distance)
    ELSE TRANSMITTING_POWER

\* the sum of the powers received at me from the drones of list
RECURSIVE interference_power(_, _)
interference_power(me, list) ==
    IF list = {} THEN 0
    ELSE LET k == CHOOSE x \in list : TRUE
         IN  receive_power(euclidean_distance(coords[me], coords[k]))
                 + interference_power(me, list \ {k})

\* sinr_calculator for one drone of main_drones_list: numerator and
\* denominator of receive_power / (noise_power + interference_power)
sinr(me, transmitter_id, all_transmitting_drones_list) ==
    [num |-> receive_power(euclidean_distance(coords[me], coords[transmitter_id])),
     den |-> NOISE_POWER
                + interference_power(me, all_transmitting_drones_list \ {transmitter_id})]

\* the comparison of two SINR values, and of one with SNR_THRESHOLD
sinr_less(a, b) == a.num * b.den < b.num * a.den
sinr_reaches_threshold(a) == 1000 * a.num >= SNR_THRESHOLD * a.den

\* the position, among the unprocessed records of box, of its record i: the
\* position of the same record in inbox
position_in_inbox(box, i) == Cardinality({ j \in 1 .. i : box[j].processed = 0 })

\* the countdown of mac_send ends at now: the packet is on the air for its
\* transmitting_time before Phy is called
mac_send_at(n) ==
    /\ mac_send(n)
    /\ tx_timeout' = [tx_timeout EXCEPT ![n] = now + transmitting_time(sending[n])]
    /\ UNCHANGED << frames, collision_num, recv_timeout >>

\* the timeout of mac_send ends at now: Phy stamps the records with env.now
transmit_done_at(n) ==
    /\ tx_timeout[n] = now
    /\ transmit_done(n)
    /\ frames' = put(frames, Item(sending[n], n),
                     IF transmission_mode(sending[n]) = 0 THEN {sending[n].next_hop_id}
                     ELSE Nodes)
    /\ UNCHANGED << collision_num, tx_timeout, recv_timeout >>

\* item[3] = 1 in trigger, for the records at the positions done
mark(box, done) ==
    [i \in 1 .. Len(box) |->
        IF i \in done THEN [box[i] EXCEPT !.processed = 1] ELSE box[i]]

\* receive: the transmitters of the records, in the inbox of any drone, whose
\* interval intersects an interval of time_span
transmitting_node_list(inboxes, time_span, touching) ==
    { k \in Nodes : \E d \in Nodes : \E j \in 1 .. Len(inboxes[d]) :
          /\ inboxes[d][j].transmitter = k
          /\ \E g \in time_span : has_intersection(inboxes[d][j], g, touching) }

\* sinr_list.index(max(sinr_list)): the first of the records at the positions
\* done whose SINR is the maximum; 0 when done is empty
which_one(me, box, done, transmitting) ==
    IF done = {} THEN 0
    ELSE CHOOSE i \in done :
            LET mine == sinr(me, box[i].transmitter, transmitting)
            IN  \A j \in done :
                   LET other == sinr(me, box[j].transmitter, transmitting)
                   IN  /\ ~sinr_less(mine, other)
                       /\ j < i => sinr_less(other, mine)

\* the tick of receive at node n that is due at now
receive_at(n, touching) ==
    /\ recv_pc[n] = "tick"
    /\ recv_timeout[n] = now
    /\ ~sleep[n]
    /\ \E box \in {update_inbox(frames[n], now)} :
       \E done \in {trigger(box, now)} :
       \E marked \in {mark(box, done)} :
       \E transmitting \in {transmitting_node_list([frames EXCEPT ![n] = marked],
                                                  { box[i] : i \in done }, touching)} :
       \E best \in {which_one(n, box, done, transmitting)} :
       \E winner \in {IF /\ best # 0
                         /\ sinr_reaches_threshold(sinr(n, box[best].transmitter,
                                                         transmitting))
                      THEN position_in_inbox(box, best) ELSE 0} :
       \E handed \in {winner # 0 /\ get_current_ttl(inbox[n][winner].packet) < MAX_TTL} :
          /\ collision_num' = IF Cardinality(done) > 1 THEN collision_num + 1
                              ELSE collision_num
          /\ frames' = [frames EXCEPT
                           ![n] = IF handed
                                  THEN [marked EXCEPT ![best].handed = TRUE]
                                  ELSE marked]
          /\ IF done = {}
             THEN UNCHANGED pipeline_vars
             ELSE receive(n, { position_in_inbox(box, i) : i \in done }, winner)
    /\ recv_timeout' = [recv_timeout EXCEPT
                           ![n] = IF recv_pc'[n] = "sifs" THEN now + SIFS_DURATION
                                  ELSE now + 1]
    /\ UNCHANGED tx_timeout

\* the SIFS timeout of packet_reception ends at now: the ACK is stamped with
\* env.now, and receive resumes one tick after the ACK's transmitting time
send_ack_at(n) ==
    /\ recv_timeout[n] = now
    /\ send_ack(n)
    /\ frames' = IF ~sleep[n]
                 THEN put(frames, Item(increase_ttl(pending_ack[n]), n), {pending_ack[n].dst})
                 ELSE frames
    /\ recv_timeout' = [recv_timeout EXCEPT
                           ![n] = IF ~sleep[n] THEN now + ACK_PACKET_LENGTH + 1 ELSE now + 1]
    /\ UNCHANGED << collision_num, tx_timeout >>

\* env.step when no timeout ends at now: simulated time moves to the next tick
next_tick ==
    /\ now < MaxTicks
    /\ \A n \in Nodes : recv_pc[n] \in {"tick", "sifs"} => recv_timeout[n] > now
    /\ \A n \in Nodes : feed_pc[n] = "transmit" => tx_timeout[n] > now
    /\ now' = now + 1
    /\ UNCHANGED << GLOBAL_DATA_PACKET_ID, GL_ID_HELLO_PACKET, GL_ID_ACK_PACKET,
                    transmitting_queue, waiting_list, buffer, channel_states, inbox,
                    number_retransmission_attempt, creation_time, expired, gen_pc,
                    feed_pc, sending, recv_pc, pending_ack, chk_pc, mac_process_count,
                    mac_process_finish, wait_ack_process_count,
                    wait_ack_process_finish, wait_ack_process_dict, neighbor_table,
                    have_void_area, datapacket_generated_num, datapacket_arrived,
                    control_packet_num, residual_energy, sleep, updated_time,
                    obs_delivered, obs_acked >>
    /\ UNCHANGED channel_vars

----------------------------------------------------------------------------
(* next_hop_selection of the routing variants as functions of their inputs: *)
(* routing/gpsr, routing/q_routing, routing/qgeo, routing/opar, routing/grad *)

\* a neighbour or cost table of the call: per drone the updated time of its
\* entry, or Absent
Absent == -1

\* maximum_communication_range(), in the unit of coords
max_comm_range == 15

\* the keys of a table in insertion order (here: ascending)
RECURSIVE keys_from(_, _)
keys_from(table, k) ==
    IF k >= NUMBER_OF_DRONES THEN << >>
    ELSE IF table[k] # Absent THEN << k >> \o keys_from(table, k + 1)
         ELSE keys_from(table, k + 1)

\* the result of a call.  arity: the number of values returned (0 when the call
\* raised); kind, id, next_hop_id: the packet returned
Returned(arity, has_route, packet, enquire) ==
    [done |-> TRUE, arity |-> arity, has_route |-> has_route, kind |-> packet.kind,
     id |-> packet.id, next_hop_id |-> packet.next_hop_id, enquire |-> enquire,
     raised |-> "none"]

Raised(exception) ==
    [done |-> TRUE, arity |-> 0, has_route |-> FALSE, kind |-> "none", id |-> 0,
     next_hop_id |-> NoNode, enquire |-> FALSE, raised |-> exception]

NoOutcome ==
    [done |-> FALSE, arity |-> 0, has_route |-> FALSE, kind |-> "none", id |-> 0,
     next_hop_id |-> NoNode, enquire |-> FALSE, raised |-> "none"]

\* the data packet of a call
call_packet(c) == DataPacket(1, c.src, c.dst)

\* Gpsr.next_hop_selection
gpsr_selection(c) ==
    LET r == next_hop_selection(keys_from(c.table, 0), c.void, c.me, call_packet(c),
                                { k \in Nodes : /\ c.table[k] # Absent
                                                /\ c.table[k] + entry_life_time < c.now })
    IN  { Returned(3, r.has_route, r.packet, r.enquire) }

\* QRoutingTable.purge: an entry is removed when updated_time + entry_life_time <= now
q_routing_purge(table, t) ==
    [k \in Nodes |-> IF table[k] # Absent /\ table[k] + entry_life_time <= t
                     THEN Absent ELSE table[k]]

\* QRoutingTable.best_neighbor: the identifiers it can return, or the
\* IndexError of random.choice on an empty list.  explore: random.random() fell below
\* 0.9 * 0.5 ** (now / 1e6); q[k]: q_table[k][dst_id]
q_routing_best_neighbor(table, q, me, explore) ==
    LET keys == { k \in Nodes : table[k] # Absent }
        others == keys \ {me}
        candidate_of_min_q_list ==
            { k \in others : \A j \in others : q[k] <= q[j] }
        chosen(list) == { [raised |-> "none", best_id |-> k] : k \in list }
    IN  IF explore
        THEN IF keys = {} THEN {[raised |-> "IndexError", best_id |-> NoNode]}
             ELSE chosen(keys)
        ELSE IF candidate_of_min_q_list # {} THEN chosen(candidate_of_min_q_list)
             ELSE chosen({me})

\* QRouting.next_hop_selection
q_routing_selection(c) ==
    { IF best.raised # "none" THEN Raised(best.raised)
      ELSE IF best.best_id = c.me THEN Returned(3, FALSE, call_packet(c), FALSE)
      ELSE Returned(3, TRUE, [call_packet(c) EXCEPT !.next_hop_id = best.best_id], FALSE) :
      best \in q_routing_best_neighbor(q_routing_purge(c.table, c.now), c.q, c.me,
                                       c.explore) }

\* QGeoNeighborTable.purge: an entry is removed when updated_time + entry_life_time < now
qgeo_purge(table, t) ==
    [k \in Nodes |-> IF table[k] # Absent /\ table[k] + entry_life_time < t
                     THEN Absent ELSE table[k]]

\* QGeoNeighborTable.best_neighbor: the first row of the largest Q value above 0
qgeo_best_neighbor(table, q, me) ==
    LET rows == { k \in Nodes : table[k] # Absent /\ q[k] > 0 }
    IN  IF rows = {} THEN me
        ELSE CHOOSE k \in rows : \A j \in rows : q[j] < q[k] \/ (q[j] = q[k] /\ k <= j)

\* QGeo.next_hop_selection
qgeo_selection(c) ==
    LET best == qgeo_best_neighbor(qgeo_purge(c.table, c.now), c.q, c.me)
    IN  { IF best = c.me THEN Returned(3, FALSE, call_packet(c), FALSE)
          ELSE Returned(3, TRUE, [call_packet(c) EXCEPT !.next_hop_id = best], FALSE) }

\* np.inf of the cost matrix and of distance_list
Inf == 99

\* link lifetimes are counted in 1 / LIFETIME_UNIT of a second; 1e11, the
\* minimum_link_lifetime before the first link of a path is read
LIFETIME_UNIT == 2
NO_LINK_LIFETIME == 100

plus(a, b) == IF a = Inf \/ b = Inf THEN Inf ELSE a + b

\* Opar.calculate_cost_matrix: cost 1 between two drones within max_comm_range
calculate_cost_matrix(position) ==
    [i \in Nodes |-> [j \in Nodes |->
        IF i # j /\ euclidean_distance(position[i], position[j]) < max_comm_range
        THEN 1 ELSE Inf]]

\* the loop over j of a dijkstra that removes a link only when its predicted
\* lifetime is below minimum_link_lifetime
RECURSIVE relax_below(_, _, _, _, _)
relax_below(s, min_distance_node, j, lifetime, minimum_link_lifetime) ==
    IF j >= NUMBER_OF_DRONES THEN s
    ELSE IF ~s.visited_list[j] /\ s.cost[min_distance_node][j] # Inf
    THEN LET cost == IF lifetime[min_distance_node][j] < minimum_link_lifetime
                     THEN [s.cost EXCEPT ![min_distance_node][j] = Inf,
                                         ![j][min_distance_node] = Inf]
                     ELSE s.cost
             alt == plus(s.distance_list[min_distance_node], cost[min_distance_node][j])
             relaxed == IF alt < s.distance_list[j]
                        THEN [s EXCEPT !.cost = cost, !.distance_list[j] = alt,
                                       !.prev_list[j] = min_distance_node]
                        ELSE [s EXCEPT !.cost = cost]
         IN  relax_below(relaxed, min_distance_node, j + 1, lifetime,
                         minimum_link_lifetime)
    ELSE relax_below(s, min_distance_node, j + 1, lifetime, minimum_link_lifetime)

\* Opar.dijkstra, the loop over j for the visited drone min_distance_node:
\* a link whose predicted lifetime is at most minimum_link_lifetime is removed
\* from the cost matrix, then the distance of j is relaxed
RECURSIVE relax(_, _, _, _, _)
relax(s, min_distance_node, j, lifetime, minimum_link_lifetime) ==
    IF j >= NUMBER_OF_DRONES THEN s
    ELSE IF ~s.visited_list[j] /\ s.cost[min_distance_node][j] # Inf
    THEN LET cost == IF lifetime[min_distance_node][j] <= minimum_link_lifetime
                     THEN [s.cost EXCEPT ![min_distance_node][j] = Inf,
                                         ![j][min_distance_node] = Inf]
                     ELSE s.cost
             alt == plus(s.distance_list[min_distance_node], cost[min_distance_node][j])
             relaxed == IF alt < s.distance_list[j]
                        THEN [s EXCEPT !.cost = cost, !.distance_list[j] = alt,
                                       !.prev_list[j] = min_distance_node]
                        ELSE [s EXCEPT !.cost = cost]
         IN  relax(relaxed, min_distance_node, j + 1, lifetime, minimum_link_lifetime)
    ELSE relax(s, min_distance_node, j + 1, lifetime, minimum_link_lifetime)

\* Opar.dijkstra, the loop over i: the first unvisited drone of least distance
\* is visited
RECURSIVE visit(_, _, _, _)
visit(s, i, lifetime, minimum_link_lifetime) ==
    IF i >= NUMBER_OF_DRONES THEN s
    ELSE LET unvisited_list == { k \in Nodes : ~s.visited_list[k] }
             min_distance_node ==
                 CHOOSE k \in unvisited_list : \A h \in unvisited_list :
                     \/ s.distance_list[k] < s.distance_list[h]
                     \/ s.distance_list[k] = s.distance_list[h] /\ k <= h
         IN  visit(relax([s EXCEPT !.visited_list[min_distance_node] = TRUE],
                         min_distance_node, 0, lifetime, minimum_link_lifetime),
                   i + 1, lifetime, minimum_link_lifetime)

\* Opar.dijkstra, path construction: the predecessors of dst_id are inserted
\* in front, the mark -2 of the source included; an unreached drone empties
\* the path
RECURSIVE construct(_, _, _)
construct(prev_list, current_node, path) ==
    IF current_node = -2 THEN path
    ELSE IF prev_list[current_node] # -1
         THEN construct(prev_list, prev_list[current_node],
                        << prev_list[current_node] >> \o path)
         ELSE << >>

\* Opar.dijkstra: the path and the cost matrix, which it changes in place
dijkstra(cost, src_id, dst_id, lifetime, minimum_link_lifetime) ==
    LET s == visit([cost |-> cost,
                    distance_list |-> [k \in Nodes |-> IF k = src_id THEN 0 ELSE Inf],
                    prev_list |-> [k \in Nodes |-> IF k = src_id THEN -2 ELSE -1],
                    visited_list |-> [k \in Nodes |-> FALSE]],
                   0, lifetime, minimum_link_lifetime)
    IN  [path |-> construct(s.prev_list, dst_id, << dst_id >>), cost |-> s.cost]

\* Opar.next_hop_selection, the loop over the links of a path: total_cost, t
\* and minimum_link_lifetime (1 / delta_t > t is LIFETIME_UNIT ^ 2 > delta_t * t
\* in units of 1 / LIFETIME_UNIT)
RECURSIVE links(_, _, _, _, _)
links(path, link, cost, lifetime, acc) ==
    IF link > Len(path) - 1 THEN acc
    ELSE LET delta_t == lifetime[path[link]][path[link + 1]]
         IN  links(path, link + 1, cost, lifetime,
                   [total_cost |-> plus(acc.total_cost, cost[path[link]][path[link + 1]]),
                    t |-> IF LIFETIME_UNIT * LIFETIME_UNIT > delta_t * acc.t
                          THEN delta_t ELSE acc.t,
                    minimum_link_lifetime |->
                        IF delta_t < acc.minimum_link_lifetime
                        THEN delta_t ELSE acc.minimum_link_lifetime])

\* the objective w1 * total_cost + w2 * t with w1 = w2 = 0.5, times
\* 2 * LIFETIME_UNIT
obj(e) == plus(LIFETIME_UNIT * e.total_cost, e.t)

\* Opar.next_hop_selection, the while loop: paths are searched again without
\* the links that live no longer than the shortest-lived link of the last path,
\* until none is found
RECURSIVE search(_, _, _, _, _, _)
search(cost, path, minimum_link_lifetime, best_obj, best_path, c) ==
    IF path = << >> THEN best_path
    ELSE LET d == dijkstra(cost, c.me, c.dst, c.lifetime, minimum_link_lifetime)
             e == links(Tail(d.path), 1, d.cost, c.lifetime,
                        [total_cost |-> 0, t |-> 0,
                         minimum_link_lifetime |-> NO_LINK_LIFETIME])
         IN  IF d.path = << >> THEN best_path
             ELSE IF obj(e) < best_obj
                  THEN search(d.cost, Tail(d.path), e.minimum_link_lifetime, obj(e),
                              Tail(d.path), c)
                  ELSE search(d.cost, Tail(d.path), e.minimum_link_lifetime, best_obj,
                              best_path, c)

\* Opar.next_hop_selection at the source: best_path
opar_best_path(c) ==
    LET d == dijkstra(calculate_cost_matrix(c.position), c.me, c.dst, c.lifetime, 0)
        e == links(Tail(d.path), 1, d.cost, c.lifetime,
                   [total_cost |-> 0, t |-> 0, minimum_link_lifetime |-> NO_LINK_LIFETIME])
    IN  IF d.path # << >>
        THEN search(d.cost, Tail(d.path), e.minimum_link_lifetime, obj(e), Tail(d.path), c)
        ELSE << c.me, c.me >>

\* Opar.next_hop_selection returns best_next_hop_id alone: at the source the
\* drone after itself on best_path, at a relay the drone after itself on
\* packet.routing_path, or itself.  (The velocities of two drones differ, so
\* link_lifetime_predictor divides by A > 0.)
opar_selection(c) ==
    LET bare(id) == Returned(1, FALSE, [NoPacket EXCEPT !.next_hop_id = id], FALSE)
    IN  IF c.src = c.me
        THEN { bare(Tail(opar_best_path(c))[1]) }
        ELSE IF Len(c.routing_path) > 1 THEN { bare(c.routing_path[2]) }
             ELSE { bare(c.me) }

\* Grad.next_hop_selection returns the pair (has_route, grad_message)
grad_selection(c) ==
    { Returned(2, c.has_entry,
               [kind |-> IF c.has_entry THEN "M_DATA" ELSE "M_REQUEST", id |-> 1,
                next_hop_id |-> NoNode],
               FALSE) }

\* the calls: the variant, the selecting drone, source and destination of the
\* packet, the time, the table, have_void_area, the Q values, the exploration
\* draw, packet.routing_path, whether the cost table has an entry, the x
\* coordinates of the drones and the predicted lifetime of each link
Tables(t) == [Nodes -> {Absent} \cup (0 .. t)]

Lifetimes ==
    { [i \in Nodes |-> [j \in Nodes |->
          IF {i, j} = {0, 1} THEN a ELSE IF {i, j} = {1, 2} THEN b ELSE d]] :
      a \in 1 .. MaxLifetime, b \in 1 .. MaxLifetime, d \in 1 .. MaxLifetime }

Positions == { coords, [n \in Nodes |-> 10 * n], [n \in Nodes |-> 20 * n],
               [n \in Nodes |-> << 20, 0, 10 >>[n + 1]] }

Calls ==
    UNION { [variant : {v}, me : {1}, src : {1}, dst : {0, 2}, now : {t}, table : Tables(t),
             void : IF v = "gpsr" THEN {0, 1} ELSE {1},
             q : IF v \in {"q_routing", "qgeo"} THEN [Nodes -> {0, 1}]
                 ELSE {[k \in Nodes |-> 0]},
             explore : IF v = "q_routing" THEN BOOLEAN ELSE {FALSE},
             routing_path : {<< >>}, has_entry : {FALSE},
             position : {coords}, lifetime : {[i \in Nodes |-> [j \in Nodes |-> 1]]}] :
            v \in {"gpsr", "q_routing", "qgeo"}, t \in 0 .. MaxTime }
    \cup [variant : {"opar"}, me : {1}, src : {1}, dst : {0, 2}, now : {0},
          table : {[k \in Nodes |-> Absent]}, void : {1}, q : {[k \in Nodes |-> 0]},
          explore : {FALSE}, routing_path : {<< >>}, has_entry : {FALSE},
          position : Positions, lifetime : Lifetimes]
    \cup [variant : {"opar"}, me : {1}, src : {0}, dst : {0, 2}, now : {0},
          table : {[k \in Nodes |-> Absent]}, void : {1}, q : {[k \in Nodes |-> 0]},
          explore : {FALSE},
          routing_path : {<< >>, << 1 >>, << 1, 2 >>, << 1, 0 >>, << 1, 1 >>},
          has_entry : {FALSE},
          position : {coords}, lifetime : {[i \in Nodes |-> [j \in Nodes |-> 1]]}]
    \cup [variant : {"grad"}, me : {1}, src : {1}, dst : {0, 2}, now : {0},
          table : {[k \in Nodes |-> Absent]}, void : {1}, q : {[k \in Nodes |-> 0]},
          explore : {FALSE}, routing_path : {<< >>}, has_entry : BOOLEAN,
          position : {coords}, lifetime : {[i \in Nodes |-> [j \in Nodes |-> 1]]}]

NoCall ==
    [variant |-> "none", me |-> NoNode, src |-> NoNode, dst |-> NoNode, now |-> 0,
     table |-> [k \in Nodes |-> Absent], void |-> 1, q |-> [k \in Nodes |-> 0],
     explore |-> FALSE, routing_path |-> << >>, has_entry |-> FALSE,
     position |-> coords, lifetime |-> [i \in Nodes |-> [j \in Nodes |-> 1]]]

\* one call of next_hop_selection of the named variant
select(variant, outcomes) ==
    /\ call.variant = variant
    /\ ~outcome.done
    /\ outcome' \in outcomes
    /\ UNCHANGED << call, pipeline_vars, channel_vars >>

----------------------------------------------------------------------------
(* The program with QRouting installed: routing/q_routing/q_routing.py,    *)
(* feed_packet and receive of entities/drone.py                             *)

\* QRoutingTable.q_table[k][dst_id] of every drone: the initial value, which
\* only update_q_table changes
q_table == [k \in Nodes |-> 30000]

\* the table of the selection layer for the keys of a neighbour table
table_of(keys) == [k \in Nodes |-> IF Contains(keys, k) THEN 0 ELSE Absent]

\* no process has raised: env.run goes on
running == \A n \in Nodes : feed_pc[n] # "error" /\ recv_pc[n] # "error"

\* the 10 us tick of feed_packet at node n with QRouting.next_hop_selection.
\* old: the neighbour entries whose lifetime has passed; late: whether the
\* deadline of a control packet at the head of the queue has passed; explore:
\* the draw of best_neighbor; best: what best_neighbor returns or raises.  An
\* exception of next_hop_selection ends feed_packet
q_routing_feed_packet(n, old, late, explore, best) ==
    /\ feed_pc[n] = "tick"
    /\ old \subseteq { neighbor_table[n][i] : i \in 1 .. Len(neighbor_table[n]) }
    /\ IF blocking(n) \/ Len(transmitting_queue[n]) = 0
       THEN /\ old = {} /\ late = FALSE /\ explore = FALSE /\ best.raised = "none"
            /\ best.best_id = n
            /\ feed_pc' = [feed_pc EXCEPT ![n] = loop_top(n, "tick")]
            /\ UNCHANGED << transmitting_queue, waiting_list, buffer, sending,
                            neighbor_table, updated_time,
                            number_retransmission_attempt, mac_process_count,
                            mac_process_finish >>
       ELSE LET packet  == Head(transmitting_queue[n])
                is_data == packet.kind = "data"
                is_late == IF is_data THEN packet.id \in expired ELSE late
                selects == is_data /\ ~is_late
                           /\ number_retransmission_attempt[packet.id][n] < MAX_RETRANSMISSION_ATTEMPT
                raises  == selects /\ best.raised # "none"
                has_route == selects /\ ~raises /\ best.best_id # n
                final   == IF is_late THEN NoPacket
                           ELSE IF ~is_data THEN packet
                           ELSE IF has_route THEN [packet EXCEPT !.next_hop_id = best.best_id]
                           ELSE NoPacket
                enters  == final # NoPacket /\ ~sleep[n]
            IN  /\ (is_data => late = FALSE)
                /\ IF selects
                   THEN best \in q_routing_best_neighbor(
                                     table_of(purge(neighbor_table[n], old)), q_table, n,
                                     explore)
                   ELSE old = {} /\ explore = FALSE /\ best.raised = "none"
                        /\ best.best_id = n
                /\ transmitting_queue' = [transmitting_queue EXCEPT ![n] = Tail(@)]
                /\ neighbor_table' = IF selects
                                     THEN [neighbor_table EXCEPT ![n] = purge(@, old)]
                                     ELSE neighbor_table
                /\ updated_time' = IF selects
                                   THEN [updated_time EXCEPT
                                            ![n] = [k \in Nodes |-> IF k \in old THEN 0 ELSE @[k]]]
                                   ELSE updated_time
                /\ waiting_list' = IF selects /\ ~raises /\ ~has_route
                                   THEN [waiting_list EXCEPT ![n] = Append(@, packet)]
                                   ELSE waiting_list
                /\ IF raises
                   THEN /\ feed_pc' = [feed_pc EXCEPT ![n] = "error"]
                        /\ UNCHANGED << buffer, sending, number_retransmission_attempt,
                                        mac_process_count, mac_process_finish >>
                   ELSE IF enters
                   THEN packet_coming(n, final)
                   ELSE /\ feed_pc' = [feed_pc EXCEPT ![n] = loop_top(n, "tick")]
                        /\ UNCHANGED << buffer, sending, number_retransmission_attempt,
                                        mac_process_count, mac_process_finish >>
    /\ UNCHANGED << now, creation_time, GLOBAL_DATA_PACKET_ID, GL_ID_HELLO_PACKET,
                    GL_ID_ACK_PACKET, have_void_area,
                    channel_states, inbox, expired, gen_pc, recv_pc, pending_ack,
                    chk_pc, wait_ack_process_count, wait_ack_process_finish,
                    wait_ack_process_dict, datapacket_generated_num,
                    datapacket_arrived, control_packet_num, residual_energy, sleep,
                    obs_delivered, obs_acked >>

\* QRouting.packet_reception of packet pkd, received from src_drone_id.  No
\* code sets transmitting_start_time of a data packet (packet.py: None), so
\* waiting_time = transmitting_start_time - waiting_start_time, and
\* now - transmitting_start_time in update_q_table, raise TypeError
q_routing_packet_reception(n, pkd, src_drone_id) ==
    CASE pkd.kind = "hello" ->
            /\ neighbor_table' = [neighbor_table EXCEPT ![n] = add_neighbor(@, pkd.src)]
            /\ updated_time' = [updated_time EXCEPT ![n][pkd.src] = now]
            /\ recv_pc' = recv_pc
            /\ UNCHANGED << transmitting_queue, datapacket_arrived, obs_delivered >>
      [] pkd.kind = "data" ->
            IF pkd.dst = n
            THEN /\ datapacket_arrived' = SetAdd(datapacket_arrived, pkd.id)
                 /\ obs_delivered' = [obs_delivered EXCEPT ![pkd.id] = @ + 1]
                 /\ recv_pc' = [recv_pc EXCEPT ![n] = "error"]
                 /\ UNCHANGED << transmitting_queue, neighbor_table, updated_time >>
            ELSE IF Len(transmitting_queue[n]) < MAX_QUEUE_SIZE
            THEN /\ transmitting_queue' = [transmitting_queue EXCEPT ![n] = Append(@, pkd)]
                 /\ recv_pc' = [recv_pc EXCEPT ![n] = "error"]
                 /\ UNCHANGED << datapacket_arrived, obs_delivered, neighbor_table,
                                 updated_time >>
            ELSE /\ recv_pc' = recv_pc
                 /\ UNCHANGED << transmitting_queue, datapacket_arrived, obs_delivered,
                                 neighbor_table, updated_time >>
      [] pkd.kind = "ack" ->
            /\ recv_pc' = [recv_pc EXCEPT ![n] = "error"]
            /\ UNCHANGED << transmitting_queue, datapacket_arrived, obs_delivered,
                            neighbor_table, updated_time >>

\* the 5 us tick of receive at node n with QRouting installed.  An exception
\* of packet_reception reaches receive through yield self.env.process(...),
\* where nothing catches it: receive ends
q_routing_receive(n, complete, winner) ==
    /\ recv_pc[n] = "tick"
    /\ IF sleep[n]
       THEN /\ complete = {} /\ winner = 0
            /\ recv_pc' = [recv_pc EXCEPT ![n] = "stopped"]
            /\ UNCHANGED << transmitting_queue, inbox, neighbor_table, updated_time,
                            datapacket_arrived, obs_delivered >>
       ELSE /\ complete # {}
            /\ complete \subseteq 1 .. Len(inbox[n])
            /\ winner \in complete \cup {0}
            /\ LET f[i \in 0 .. Len(inbox[n])] ==
                       IF i = 0 THEN << >>
                       ELSE IF i \notin complete THEN Append(f[i - 1], inbox[n][i])
                       ELSE f[i - 1]
               IN  inbox' = [inbox EXCEPT ![n] = f[Len(inbox[n])]]
            /\ IF winner # 0 /\ get_current_ttl(inbox[n][winner].packet) < MAX_TTL
               THEN q_routing_packet_reception(n, inbox[n][winner].packet,
                                               inbox[n][winner].transmitter)
               ELSE /\ recv_pc' = recv_pc
                    /\ UNCHANGED << transmitting_queue, neighbor_table, updated_time,
                                    datapacket_arrived, obs_delivered >>
    /\ UNCHANGED << now, creation_time, GLOBAL_DATA_PACKET_ID, GL_ID_HELLO_PACKET,
                    GL_ID_ACK_PACKET, pending_ack, wait_ack_process_dict,
                    waiting_list, buffer,
                    channel_states, number_retransmission_attempt, expired, gen_pc,
                    feed_pc, sending, chk_pc, mac_process_count, mac_process_finish,
                    wait_ack_process_count, wait_ack_process_finish, have_void_area,
                    datapacket_generated_num, control_packet_num, residual_energy,
                    sleep, obs_acked >>

----------------------------------------------------------------------------
(* phy/channel.py: the put operations of Channel as functions of pipes      *)

\* the records put: two frames of drone 0
Values == { Frame(DataPacket(1, 0, 2), 0), Frame(GpsrHelloPacket(1, 0), 0) }

\* pipes: the registered inboxes, each empty or holding one record
Pipes == UNION { [keys -> { << >>, << Frame(GpsrHelloPacket(1, 0), 0) >> }] : keys \in SUBSET Nodes }

Injections ==
    [op : {"unicast_put"}, pipes : Pipes, value : Values, dst_id : Nodes,
     dst_id_list : {<< >>}]
    \cup [op : {"broadcast_put"}, pipes : Pipes, value : Values, dst_id : {NoNode},
          dst_id_list : {<< >>}]
    \cup [op : {"multicast_put"}, pipes : Pipes, value : Values, dst_id : {NoNode},
          dst_id_list : {<< >>, << 0 >>, << 0, 1 >>, << 2, 0 >>, << 1, 1 >>}]

\* one call of a put operation: pipes after the call and the errors logged
inject(op, pipes, errors) ==
    /\ call.op = op
    /\ ~outcome.done
    /\ outcome' = [done |-> TRUE, pipes |-> pipes, errors |-> errors]
    /\ UNCHANGED << call, pipeline_vars, channel_vars >>

----------------------------------------------------------------------------
(* The random draws of a run, in the order of simpy's event queue.  Every   *)
(* draw is made with the module-level generator of random, which            *)
(* Drone.__init__ seeds last with 2025 + identifier and                     *)
(* QRoutingTable.best_neighbor reseeds with random_sd at each call; the     *)
(* next value of the generator is a function of the last seed and of the    *)
(* number of draws made since.  A tape stands for that function.            *)

Tapes == { << a, b, c >> : a \in {1, 3}, b \in {1, 7}, c \in {0, 5} }

\* the next value of the generator, one of ten levels
draw(tape, rng) == (tape[1] * rng.seed + tape[2] * rng.n + tape[3]) % 10

\* round(random.expovariate(rate) * 1e6) with rate = 2, for the ten levels of
\* the generator: round(-ln(1 - v / 10) / 2 * 1e6)
expovariate(v) ==
    << 0, 52680, 111572, 178337, 255413, 346574, 458145, 601986, 804719, 1151293 >>[v + 1]

\* the next polling instant of feed_packet: yield self.env.timeout(10)
poll(time) == (time \div 10 + 1) * 10

\* the run after Simulator.__init__ and the start of every process at time 0:
\* each drone has queued its first hello packet and waits for
\* hello_interval + jitter, then waits for its first inter-arrival time
InitialRun(tape) ==
    LET rng(n) == [seed |-> 2025 + NUMBER_OF_DRONES - 1, n |-> n]
        jitter(d) == 1000 + (draw(tape, rng(1 + 2 * d)) % 1001)
        interval(d) == expovariate(draw(tape, rng(2 + 2 * d)))
    IN  [rng |-> rng(1 + 2 * NUMBER_OF_DRONES),
         random_sd |-> [d \in Nodes |-> d * 1000],
         eid |-> 3 * NUMBER_OF_DRONES,
         queue |-> UNION { { [time |-> 500000 + jitter(d), eid |-> 3 * d + 1,
                              kind |-> "hello", drone |-> d, dst |-> NoNode],
                             [time |-> poll(0), eid |-> 3 * d + 2,
                              kind |-> "feed", drone |-> d, dst |-> NoNode],
                             [time |-> interval(d), eid |-> 3 * d + 3,
                              kind |-> "generate", drone |-> d, dst |-> NoNode] }
                           : d \in Nodes },
         datapacket_generated_num |-> 0,
         trace |-> << >>]

\* one step of env.run(): the event of the least time, and among these the
\* one scheduled first, is taken off the queue and its process resumes.
\*   hello     broadcast_hello_packet_periodically: the packet is queued, the
\*             jitter drawn
\*   generate  generate_data_packet: the destination drawn, the packet queued,
\*             the next inter-arrival time drawn
\*   feed      feed_packet reads the packet; for a data packet best_neighbor
\*             reseeds and draws (every other drone is in neighbor_table, all
\*             Q-values are equal, the exponent of the exploration threshold
\*             is rounded down to whole seconds); mac_send draws the backoff
fire(tape, r) ==
    LET e == CHOOSE e \in r.queue :
                 \A f \in r.queue : e.time < f.time \/ (e.time = f.time /\ e.eid <= f.eid)
        d == e.drone
        others == [i \in 1 .. NUMBER_OF_DRONES - 1 |-> IF i - 1 < d THEN i - 1 ELSE i]
        choice(v) == others[(v % (NUMBER_OF_DRONES - 1)) + 1]
        after(k) == [r.rng EXCEPT !.n = @ + k]
        seeded(k) == [seed |-> r.random_sd[d], n |-> k]
        event(kind, time, k, dst) ==
            [time |-> time, eid |-> r.eid + k, kind |-> kind, drone |-> d, dst |-> dst]
        entry(drawn) == [time |-> e.time, kind |-> e.kind, drone |-> d, drawn |-> drawn]
        taken == [r EXCEPT !.queue = @ \ {e}]
    IN  IF e.kind = "hello"
        THEN LET jitter == 1000 + (draw(tape, r.rng) % 1001)
             IN  [taken EXCEPT !.rng = after(1),
                               !.eid = @ + 2,
                               !.queue = @ \cup { event("feed", poll(e.time), 1, NoNode),
                                                  event("hello", e.time + 500000 + jitter, 2, NoNode) },
                               !.trace = Append(@, entry(<< jitter >>))]
        ELSE IF e.kind = "generate"
        THEN LET dst_id == choice(draw(tape, r.rng))
                 interval == expovariate(draw(tape, after(1)))
             IN  [taken EXCEPT !.rng = after(2),
                               !.eid = @ + 2,
                               !.queue = @ \cup { event("feed", poll(e.time), 1, dst_id),
                                                  event("generate", e.time + interval, 2, NoNode) },
                               !.datapacket_generated_num = @ + 1,
                               !.trace = Append(@, entry(<< dst_id, interval >>))]
        ELSE IF e.dst # NoNode
        THEN LET explore == draw(tape, seeded(0)) * (2 ^ (e.time \div 1000000)) < 9
                 best_id == IF explore THEN choice(draw(tape, seeded(1)))
                            ELSE choice(draw(tape, seeded(0)))
                 left == IF explore THEN seeded(2) ELSE seeded(1)
                 backoff == draw(tape, left) % 31
             IN  [taken EXCEPT !.rng = [left EXCEPT !.n = @ + 1],
                               !.random_sd[d] = @ + 1,
                               !.trace = Append(@, entry(<< best_id, backoff >>))]
        ELSE LET backoff == draw(tape, r.rng) % 31
             IN  [taken EXCEPT !.rng = after(1),
                               !.trace = Append(@, entry(<< backoff >>))]

\* replay with the generator of the second run seeded apart from the program's
\* seeds: its draws come from another tape
replay_seeded_apart(run) ==
    /\ Len(outcome[run].trace) < MaxReplay
    /\ outcome' = [outcome EXCEPT ![run] =
                      fire(IF run = "second"
                           THEN << call.tape[1], call.tape[2], call.tape[3] + 1 >>
                           ELSE call.tape, @)]
    /\ UNCHANGED << call, pipeline_vars, channel_vars >>

(* Properties of the packet ids *)

\* C20: among the packets created so far, no two packets of different kinds
\* carry the same packet_id, and no two control packets (any kind but data)
\* created separately carry the same packet_id
C20_KindImpliedById ==
    \A i, j \in 1 .. Len(outcome.created) :
       ( /\ i < j
         /\ \/ outcome.created[i].kind # outcome.created[j].kind
            \/ outcome.created[i].kind # "data" )
       => outcome.created[i].packet_id # outcome.created[j].packet_id

\* one step of one of two runs of the same program on the same generator
replay(run) ==
    /\ Len(outcome[run].trace) < MaxReplay
    /\ outcome' = [outcome EXCEPT ![run] = fire(call.tape, @)]
    /\ UNCHANGED << call, pipeline_vars, channel_vars >>

----------------------------------------------------------------------------
(* The packet id counters, at their values in the source, under Gpsr        *)
(* (utils/config.py) and under Qldv (routing/qldv/qldv.py)                  *)

\* GLOBAL_DATA_PACKET_ID of drone.py, GL_ID_HELLO_PACKET, GL_ID_ACK_PACKET and
\* GL_ID_VF_PACKET of config.py or of qldv.py, GL_ID_ERROR_PACKET of qldv.py
IdCounters(routing) ==
    IF routing = "Gpsr"
    THEN [data |-> 0, hello |-> 10000, ack |-> 20000, vf |-> 30000, error |-> 0]
    ELSE [data |-> 0, hello |-> 5000, ack |-> 10000, vf |-> 0, error |-> 20000]

\* the creation of one packet of a kind by a routing module: counter is
\* incremented, the packet takes its id from the counter id_from
create(routing, kind, counter, id_from) ==
    /\ call.routing \in routing
    /\ Len(outcome.created) < MaxCreated
    /\ \E counters \in { [outcome.counters EXCEPT ![counter] = @ + 1] } :
          outcome' = [counters |-> counters,
                      created |-> Append(outcome.created,
                                         [kind |-> kind, packet_id |-> counters[id_from]])]
    /\ UNCHANGED << call, pipeline_vars, channel_vars >>

----------------------------------------------------------------------------
(* mac/csma_ca.py: the countdown of mac_send in microseconds (IEEE 802.11b: *)
(* slots of 20, SIFS 10, DIFS = SIFS + 2 slots)                             *)

SLOT_DURATION == 20
DIFS_DURATION == 50

\* the except branch of mac_send without its else branch: every interrupted
\* countdown starts again in full
freeze_restarts(to_wait, backoff, already_wait) ==
    [to_wait |-> DIFS_DURATION + backoff, backoff |-> backoff]

\* the except branch of mac_send: the countdown to_wait with the backoff it
\* contains was interrupted after already_wait
freeze(to_wait, backoff, already_wait) ==
    LET remaining == to_wait - already_wait
    IN  IF remaining > backoff
        THEN [to_wait |-> DIFS_DURATION + backoff, backoff |-> backoff]
        ELSE [to_wait |-> DIFS_DURATION + remaining, backoff |-> remaining]

\* listen, started with the countdown, tests the channel at once and then
\* every SLOT_DURATION; at its test number slots it finds the channel busy and
\* interrupts mac_send, whose timeout has not fired yet (a timeout due at the
\* same instant was scheduled earlier and fires first)
interrupt(slots) ==
    /\ outcome.interruptions < MaxInterruptions
    /\ slots * SLOT_DURATION < outcome.to_wait
    /\ \E frozen \in { freeze(outcome.to_wait, outcome.backoff, slots * SLOT_DURATION) } :
          outcome' = [to_wait |-> frozen.to_wait,
                      backoff |-> frozen.backoff,
                      interruptions |-> outcome.interruptions + 1,
                      before |-> [to_wait |-> outcome.to_wait,
                                  backoff |-> outcome.backoff,
                                  already_wait |-> slots * SLOT_DURATION]]
    /\ UNCHANGED << call, pipeline_vars, channel_vars >>

\* the state after Simulator.__init__: no call of next_hop_selection is singled out
Init ==
    /\ InitProgram
    /\ call = NoCall
    /\ outcome = NoOutcome

----------------------------------------------------------------------------
(* The steps of the traffic.  sources: the drones whose generator produces   *)
(* the first MaxDataPackets packets; destinations: the destinations drawn;   *)
(* hellos: the drones that broadcast the first MaxHelloPackets hello packets;*)
(* timed: whether the entries that purge removes are those that now and      *)
(* updated_time give, or any entries (simulated time is then not followed)   *)

Traffic(sources, destinations, hellos, timed) ==
    \/ /\ GLOBAL_DATA_PACKET_ID < MaxDataPackets
       /\ \E n \in sources, dst_id \in destinations : generate_data_packet(n, dst_id)
       /\ UNCHANGED << channel_vars, selection_vars >>
    \/ /\ \E n \in hellos : broadcast_hello_packet(n)
       /\ UNCHANGED << channel_vars, selection_vars >>
    \/ /\ \E n \in Nodes, late \in BOOLEAN :
             \E old \in (IF timed THEN {stale_entries(n)} ELSE SUBSET Nodes) :
                feed_packet(n, old, late)
       /\ UNCHANGED << channel_vars, selection_vars >>
    \/ /\ \E n \in Nodes : wait_idle_channel(n)
       /\ UNCHANGED << channel_vars, selection_vars >>
    \/ /\ \E n \in Nodes : listen(n)
       /\ UNCHANGED << channel_vars, selection_vars >>
    \/ /\ \E n \in Nodes : mac_send(n)
       /\ UNCHANGED << channel_vars, selection_vars >>
    \/ /\ \E n \in Nodes : transmit_done(n)
       /\ UNCHANGED << channel_vars, selection_vars >>
    \/ /\ ack_timeout_elapses
       /\ UNCHANGED << channel_vars, selection_vars >>
    \/ /\ \E n \in Nodes : \E w \in wait_ack_process_dict[n] : wait_ack(n, w)
       /\ UNCHANGED << channel_vars, selection_vars >>
    \/ /\ \E n \in Nodes : \E k \in 0 .. Len(inbox[n]) :
             \E winner \in 0 .. k : receive(n, 1 .. k, winner)
       /\ UNCHANGED << channel_vars, selection_vars >>
    \/ /\ \E n \in Nodes : send_ack(n)
       /\ UNCHANGED << channel_vars, selection_vars >>
    \/ /\ \E n \in Nodes : check_waiting_list(n)
       /\ UNCHANGED << channel_vars, selection_vars >>

(* The packet pipeline of the program as Drone.__init__ launches it *)

Next ==
    \/ Traffic({0}, {2}, {1, 2}, FALSE)
    \/ (\E id \in DataIds : packet_expires(id)) /\ UNCHANGED << channel_vars, selection_vars >>

Spec == Init /\ [][Next]_vars

(* The neighbour table in simulated time: one source, one relay *)

NextTable ==
    \/ Traffic({0}, {2}, {1}, TRUE)
    \/ clock_tick /\ UNCHANGED << channel_vars, selection_vars >>

SpecTable == Init /\ [][NextTable]_vars

(* Energy: the program as launched (energy_monitor is not started), and the *)
(* program with the energy_monitor of the source drone running              *)

NextEnergy ==
    \/ Traffic({0}, {1}, {1}, FALSE)
    \/ (\E id \in DataIds : packet_expires(id)) /\ UNCHANGED << channel_vars, selection_vars >>
    \/ mobility_update /\ UNCHANGED << channel_vars, selection_vars >>

SpecEnergy == Init /\ [][NextEnergy]_vars /\ WF_vars(NextEnergy)

NextMonitor ==
    \/ NextEnergy
    \/ (\E n \in {0} : energy_monitor(n)) /\ UNCHANGED << channel_vars, selection_vars >>

SpecMonitor == Init /\ [][NextMonitor]_vars

(* The channel in simulated time, over a window of MaxTicks ticks of receive: *)
(* no ACK_TIMEOUT ends, no waiting list check is due, no neighbour entry    *)
(* becomes stale and no packet expires in such a window                      *)

NextChannel ==
    \/ /\ GLOBAL_DATA_PACKET_ID < MaxDataPackets
       /\ \E n \in {0}, dst_id \in {1} : generate_data_packet(n, dst_id)
       /\ UNCHANGED << channel_vars, selection_vars >>
    \/ /\ \E n \in {1} : broadcast_hello_packet(n)
       /\ UNCHANGED << channel_vars, selection_vars >>
    \/ /\ \E n \in Nodes : feed_packet(n, {}, FALSE)
       /\ UNCHANGED << channel_vars, selection_vars >>
    \/ /\ \E n \in Nodes : wait_idle_channel(n)
       /\ UNCHANGED << channel_vars, selection_vars >>
    \/ /\ \E n \in Nodes : listen(n)
       /\ UNCHANGED << channel_vars, selection_vars >>
    \/ /\ \E n \in Nodes : mac_send_at(n)
       /\ UNCHANGED selection_vars
    \/ /\ \E n \in Nodes : transmit_done_at(n)
       /\ UNCHANGED selection_vars
    \/ /\ \E n \in Nodes, touching \in BOOLEAN : receive_at(n, touching)
       /\ UNCHANGED selection_vars
    \/ /\ \E n \in Nodes : send_ack_at(n)
       /\ UNCHANGED selection_vars
    \/ next_tick /\ UNCHANGED selection_vars

SpecChannel == Init /\ [][NextChannel]_vars

(* The channel in simulated time with hello packets alone, which any drone  *)
(* broadcasts: drones 0 and 2 do not sense each other                        *)

NextHello ==
    \/ /\ \E n \in Nodes : broadcast_hello_packet(n)
       /\ UNCHANGED << channel_vars, selection_vars >>
    \/ /\ \E n \in Nodes : feed_packet(n, {}, FALSE)
       /\ UNCHANGED << channel_vars, selection_vars >>
    \/ /\ \E n \in Nodes : wait_idle_channel(n)
       /\ UNCHANGED << channel_vars, selection_vars >>
    \/ /\ \E n \in Nodes : listen(n)
       /\ UNCHANGED << channel_vars, selection_vars >>
    \/ /\ \E n \in Nodes : mac_send_at(n)
       /\ UNCHANGED selection_vars
    \/ /\ \E n \in Nodes : transmit_done_at(n)
       /\ UNCHANGED selection_vars
    \/ /\ \E n \in Nodes, touching \in BOOLEAN : receive_at(n, touching)
       /\ UNCHANGED selection_vars
    \/ next_tick /\ UNCHANGED selection_vars

SpecHello == Init /\ [][NextHello]_vars

(* One call of next_hop_selection of a routing variant on inputs drawn from *)
(* Calls                                                                    *)

InitSelection ==
    /\ InitProgram
    /\ call \in Calls
    /\ outcome = NoOutcome

NextSelection ==
    \/ select("gpsr", gpsr_selection(call))
    \/ select("q_routing", q_routing_selection(call))
    \/ select("qgeo", qgeo_selection(call))
    \/ select("opar", opar_selection(call))
    \/ select("grad", grad_selection(call))

SpecSelection == InitSelection /\ [][NextSelection]_vars

(* The packet pipeline with QRouting installed: one source, two drones that *)
(* broadcast hello packets.  env.run ends when a process raises.  No packet *)
(* expires here, and on an unexpired packet check_waiting_list of QRouting  *)
(* is the code of Gpsr                                                      *)

NextReception ==
    \/ /\ running
       /\ GLOBAL_DATA_PACKET_ID < MaxDataPackets
       /\ \E dst_id \in {2} : generate_data_packet(0, dst_id)
       /\ UNCHANGED << channel_vars, selection_vars >>
    \/ /\ running
       /\ \E n \in {1, 2} : broadcast_hello_packet(n)
       /\ UNCHANGED << channel_vars, selection_vars >>
    \/ /\ running
       /\ \E n \in Nodes, late \in BOOLEAN, explore \in BOOLEAN, old \in SUBSET Nodes :
             \E best \in [raised : {"none", "IndexError"}, best_id : Nodes \cup {NoNode}] :
                q_routing_feed_packet(n, old, late, explore, best)
       /\ UNCHANGED << channel_vars, selection_vars >>
    \/ /\ running
       /\ \E n \in Nodes : wait_idle_channel(n)
       /\ UNCHANGED << channel_vars, selection_vars >>
    \/ /\ running
       /\ \E n \in Nodes : listen(n)
       /\ UNCHANGED << channel_vars, selection_vars >>
    \/ /\ running
       /\ \E n \in Nodes : mac_send(n)
       /\ UNCHANGED << channel_vars, selection_vars >>
    \/ /\ running
       /\ \E n \in Nodes : transmit_done(n)
       /\ UNCHANGED << channel_vars, selection_vars >>
    \/ /\ running
       /\ ack_timeout_elapses
       /\ UNCHANGED << channel_vars, selection_vars >>
    \/ /\ running
       /\ \E n \in Nodes : \E w \in wait_ack_process_dict[n] : wait_ack(n, w)
       /\ UNCHANGED << channel_vars, selection_vars >>
    \/ /\ running
       /\ \E n \in Nodes : \E k \in 0 .. Len(inbox[n]) :
             \E winner \in 0 .. k : q_routing_receive(n, 1 .. k, winner)
       /\ UNCHANGED << channel_vars, selection_vars >>
    \/ /\ running
       /\ \E n \in Nodes : check_waiting_list(n)
       /\ UNCHANGED << channel_vars, selection_vars >>

SpecReception == Init /\ [][NextReception]_vars

(* One call of unicast_put, broadcast_put or multicast_put on pipes drawn   *)
(* from Pipes                                                               *)

InitInjection ==
    /\ InitProgram
    /\ call \in Injections
    /\ outcome = [done |-> FALSE, pipes |-> call.pipes, errors |-> 0]

NextInjection ==
    \/ inject("unicast_put", unicast_put(call.pipes, call.value, call.dst_id),
              unicast_put_errors(call.pipes, call.dst_id))
    \/ inject("broadcast_put", broadcast_put(call.pipes, call.value),
              broadcast_put_errors(call.pipes))
    \/ inject("multicast_put", multicast_put(call.pipes, call.value, call.dst_id_list),
              multicast_put_errors(call.pipes, call.dst_id_list))

SpecInjection == InitInjection /\ [][NextInjection]_vars

(* Two runs of the program from the same seeds                              *)

InitReplay ==
    /\ InitProgram
    /\ \E tape \in Tapes :
          /\ call = [op |-> "replay", tape |-> tape]
          /\ outcome = [first |-> InitialRun(tape), second |-> InitialRun(tape)]

NextReplay == replay("first") \/ replay("second")

SpecReplay == InitReplay /\ [][NextReplay]_vars

(* The packets created in a run, with Gpsr or with Qldv installed           *)

InitIds ==
    /\ InitProgram
    /\ \E routing \in {"Gpsr", "Qldv"} :
          /\ call = [op |-> "create", routing |-> routing]
          /\ outcome = [counters |-> IdCounters(routing), created |-> << >>]

NextIds ==
    \* Drone.generate_data_packet
    \/ create({"Gpsr", "Qldv"}, "data", "data", "data")
    \* Gpsr.broadcast_hello_packet, Qldv.broadcast_hello_packet
    \/ create({"Gpsr", "Qldv"}, "hello", "hello", "hello")
    \* Gpsr.packet_reception, Qldv.packet_reception: the ACK
    \/ create({"Gpsr", "Qldv"}, "ack", "ack", "ack")
    \* Gpsr.packet_reception: the reply to a virtual force hello packet
    \/ create({"Gpsr"}, "vf", "vf", "vf")
    \* Qldv.purge_periodically: GL_ID_ERROR_PACKET += 1, then
    \* QldvErrorPacket(id_hello_packet=GL_ID_HELLO_PACKET)
    \/ create({"Qldv"}, "error", "error", "hello")

SpecIds == InitIds /\ [][NextIds]_vars

(* The countdown of one mac_send and its interruptions                      *)

InitBackoff ==
    /\ InitProgram
    /\ \E r \in 0 .. MaxBackoffSlots :
          /\ call = [op |-> "mac_send", backoff |-> r * SLOT_DURATION]
          /\ outcome = [to_wait |-> DIFS_DURATION + r * SLOT_DURATION,
                        backoff |-> r * SLOT_DURATION,
                        interruptions |-> 0,
                        before |-> [to_wait |-> DIFS_DURATION + r * SLOT_DURATION,
                                    backoff |-> r * SLOT_DURATION,
                                    already_wait |-> 0]]

NextBackoff == \E slots \in 0 .. MaxBackoffSlots + 3 : interrupt(slots)

SpecBackoff == InitBackoff /\ [][NextBackoff]_vars

----------------------------------------------------------------------------
(* The routing tables of DSDV                                              *)

\* DsdvRoutingTable.entry_life_time (2 s), in periods of
\* detect_broken_link_periodically (0.5 s)
dsdv_entry_life_time == 4

\* DsdvRoutingTable.update_item for a packet of another drone: the loop over
\* packet.routing_table touches one key per iteration
update_item(table, src, advertised, cur_time) ==
    [dst_id \in DOMAIN table \cup DOMAIN advertised |->
        IF dst_id \notin DOMAIN advertised THEN table[dst_id]
        ELSE IF \/ dst_id \notin DOMAIN table
                \/ advertised[dst_id].seq_num > table[dst_id].seq_num
                \/ /\ advertised[dst_id].seq_num = table[dst_id].seq_num
                   /\ advertised[dst_id].metric < table[dst_id].metric
             THEN [next_hop |-> src, metric |-> plus(advertised[dst_id].metric, 1),
                   seq_num |-> advertised[dst_id].seq_num, updated_time |-> cur_time]
             ELSE table[dst_id]]

\* DsdvRoutingTable.purge: an entry that the inner loop has set to invalid
\* carries the current time and is not expired at its own turn, so every entry
\* whose next hop is the next hop of an expired entry is changed once
dsdv_purge(table, me, time) ==
    LET expired_next_hops ==
            { table[key].next_hop :
                key \in { k \in DOMAIN table \ {me} :
                            table[k].updated_time + dsdv_entry_life_time < time } }
    IN  [flag |-> IF expired_next_hops = {} THEN 0 ELSE 1,
         routing_table |->
            [key2 \in DOMAIN table |->
                IF table[key2].next_hop \in expired_next_hops
                THEN [table[key2] EXCEPT !.metric = Inf, !.seq_num = @ + 1,
                                         !.updated_time = time]
                ELSE table[key2]]]

\* DsdvRoutingTable.has_entry without the test of the metric
has_entry_any(table, me, dst_id) ==
    IF dst_id \notin DOMAIN table THEN me ELSE table[dst_id].next_hop

\* DsdvRoutingTable.has_entry
has_entry(table, me, dst_id) ==
    IF dst_id \notin DOMAIN table THEN me
    ELSE IF table[dst_id].metric # Inf THEN table[dst_id].next_hop
    ELSE me

\* Dsdv.broadcast_hello_packet of every drone, once per hello_interval, just
\* after detect_broken_link_periodically: each packet refers to the routing
\* table of its drone, not to a copy of it; a drone that sleeps keeps its
\* packets in its queue (Drone.feed_packet)
dsdv_broadcast_hello_packet ==
    /\ outcome.hellos = outcome.time
    /\ outcome' = [outcome EXCEPT
            !.hellos = @ + 1,
            !.routing_table = [n \in Nodes |-> [@[n] EXCEPT ![n].seq_num = @ + 2]]]
    /\ call' = [op |-> "broadcast_hello_packet"]
    /\ UNCHANGED << pipeline_vars, channel_vars >>

\* Dsdv.packet_reception of drone n for the hello packet of src of this period;
\* the drones are in a line 0 - 1 - 2, each within range of the next one only
dsdv_packet_reception(n, src) ==
    /\ n - src \in {1, -1}
    /\ << n, src >> \notin outcome.received
    /\ {n, src} \cap outcome.sleep = {}
    /\ outcome.hellos = outcome.time + 1
    /\ outcome' = [outcome EXCEPT
            !.routing_table[n] = update_item(@, src, outcome.routing_table[src], outcome.time),
            !.heard[n][src] = outcome.time,
            !.received = @ \cup { << n, src >> }]
    /\ call' = [op |-> "update_item"]
    /\ UNCHANGED << pipeline_vars, channel_vars >>

\* Dsdv.detect_broken_link_periodically of every drone, at the end of a period
detect_broken_link_periodically ==
    /\ outcome.time < MaxTicks
    /\ outcome.hellos = outcome.time + 1
    /\ \A n, src \in Nodes :
          n - src \in {1, -1} /\ {n, src} \cap outcome.sleep = {}
             => << n, src >> \in outcome.received
    /\ outcome' = [outcome EXCEPT
            !.time = @ + 1,
            !.received = {},
            !.routing_table = [n \in Nodes |-> dsdv_purge(@[n], n, outcome.time + 1).routing_table],
            !.urgent = { n \in Nodes :
                            dsdv_purge(outcome.routing_table[n], n, outcome.time + 1).flag = 1 }]
    /\ call' = [op |-> "purge"]
    /\ UNCHANGED << pipeline_vars, channel_vars >>

\* Drone.energy_monitor of drone n finds its energy at the threshold
dsdv_energy_monitor(n) ==
    /\ n \notin outcome.sleep
    /\ outcome' = [outcome EXCEPT !.sleep = @ \cup {n}]
    /\ call' = [op |-> "energy_monitor"]
    /\ UNCHANGED << pipeline_vars, channel_vars >>

\* Dsdv.next_hop_selection of drone n for a packet to dst_id
dsdv_next_hop_selection(n, dst_id) ==
    /\ \E best_next_hop_id \in { has_entry(outcome.routing_table[n], n, dst_id) } :
          call' = [op |-> "next_hop_selection", me |-> n, dst |-> dst_id,
                   has_route |-> best_next_hop_id # n, next_hop_id |-> best_next_hop_id]
    /\ UNCHANGED << outcome, pipeline_vars, channel_vars >>

\* DsdvRoutingTable.__init__ of every drone: the entry of the drone for itself,
\* [next hop, metric, seq_num, updated time]
InitDsdv ==
    /\ InitProgram
    /\ call = [op |-> "init"]
    /\ outcome = [routing_table |->
                     [n \in Nodes |->
                        [d \in {n} |-> [next_hop |-> n, metric |-> 0, seq_num |-> n * 2,
                                        updated_time |-> 0]]],
                  time |-> 0,
                  hellos |-> 0,
                  received |-> {},
                  sleep |-> {},
                  heard |-> [n \in Nodes |-> [src \in Nodes |-> NoNode]],
                  urgent |-> {}]

NextDsdv ==
    \/ dsdv_broadcast_hello_packet
    \/ \E n, src \in Nodes : dsdv_packet_reception(n, src)
    \/ detect_broken_link_periodically
    \/ \E n \in Nodes : dsdv_energy_monitor(n)
    \/ dsdv_next_hop_selection(0, 2)

SpecDsdv == InitDsdv /\ [][NextDsdv]_vars

(* The packet pipeline with two data packets of drone 0 for its neighbor,   *)
(* drone 1, which broadcasts hello packets                                  *)

NextAckWait ==
    \/ Traffic({0}, {1}, {1}, FALSE)
    \/ /\ GLOBAL_DATA_PACKET_ID >= MaxDataPackets
       /\ generate_data_packet(0, 1)
       /\ UNCHANGED << channel_vars, selection_vars >>

SpecAckWait == Init /\ [][NextAckWait]_vars

(* One data packet at a relay with PureAloha installed: mac/pure_aloha.py   *)
(* with feed_packet and packet_coming of entities/drone.py.  The copies of  *)
(* the packet that Gpsr.packet_reception has put in the queue share         *)
(* number_retransmission_attempt (copy.copy); a next hop is found           *)

\* Drone.feed_packet takes a copy from the queue, then packet_coming and
\* PureAloha.mac_send: the attempt is counted and a wait_ack process starts
aloha_feed_packet ==
    /\ outcome.transmitting_queue > 0
    /\ IF Len(outcome.wait_ack_process_finish) = 0 THEN TRUE
       ELSE outcome.wait_ack_process_finish[Len(outcome.wait_ack_process_finish)] = 1
    /\ outcome' =
          IF outcome.number_retransmission_attempt < MAX_RETRANSMISSION_ATTEMPT
          THEN [outcome EXCEPT
                  !.transmitting_queue = @ - 1,
                  !.number_retransmission_attempt = @ + 1,
                  !.wait_ack_process_finish = Append(@, 0),
                  !.wait_ack_process_dict =
                      @ \cup {[key |-> Len(outcome.wait_ack_process_finish) + 1,
                               pc |-> "timeout"]}]
          ELSE [outcome EXCEPT !.transmitting_queue = @ - 1]
    /\ call' = [op |-> "feed_packet"]
    /\ UNCHANGED << pipeline_vars, channel_vars >>

\* PureAloha.wait_ack of process w: ACK_TIMEOUT runs out, or the ACK branch of
\* Gpsr.packet_reception interrupts the process of the current
\* wait_ack_process_count
aloha_wait_ack(w, interrupted) ==
    /\ w \in outcome.wait_ack_process_dict
    /\ IF interrupted
       THEN /\ w.key = Len(outcome.wait_ack_process_finish)
            /\ outcome.wait_ack_process_finish[w.key] = 0
            /\ outcome' = [outcome EXCEPT !.wait_ack_process_dict = @ \ {w}]
       ELSE /\ w.pc = "timeout"
            /\ outcome' = [outcome EXCEPT
                  !.wait_ack_process_finish[Len(outcome.wait_ack_process_finish)] = 1,
                  !.wait_ack_process_dict =
                      IF outcome.number_retransmission_attempt < MAX_RETRANSMISSION_ATTEMPT
                      THEN (@ \ {w}) \cup {[w EXCEPT !.pc = "backoff"]}
                      ELSE @ \ {w}]
    /\ call' = [op |-> "wait_ack"]
    /\ UNCHANGED << pipeline_vars, channel_vars >>

\* PureAloha.wait_ack of process w after its random wait: packet_coming and
\* PureAloha.mac_send
aloha_resend(w) ==
    /\ w \in outcome.wait_ack_process_dict
    /\ w.pc = "backoff"
    /\ outcome' = [outcome EXCEPT
          !.number_retransmission_attempt = @ + 1,
          !.wait_ack_process_finish = Append(@, 0),
          !.wait_ack_process_dict =
              (@ \ {w}) \cup {[key |-> Len(outcome.wait_ack_process_finish) + 1,
                               pc |-> "timeout"]}]
    /\ call' = [op |-> "resend"]
    /\ UNCHANGED << pipeline_vars, channel_vars >>

InitAloha ==
    /\ InitProgram
    /\ call = [op |-> "init"]
    /\ \E copies \in 1 .. MaxCopies :
          outcome = [transmitting_queue |-> copies,
                     number_retransmission_attempt |-> 0,
                     wait_ack_process_finish |-> << >>,
                     wait_ack_process_dict |-> {}]

NextAloha ==
    \/ aloha_feed_packet
    \/ \E w \in outcome.wait_ack_process_dict, interrupted \in BOOLEAN :
          aloha_wait_ack(w, interrupted)
    \/ \E w \in outcome.wait_ack_process_dict : aloha_resend(w)

SpecAloha == InitAloha /\ [][NextAloha]_vars

----------------------------------------------------------------------------
(* The program with Grad installed: routing/grad/grad.py,                   *)
(* routing/grad/grad_cost_table.py, routing/grad/grad_packet.py.            *)
(*                                                                          *)
(* The three drones sit on a line and each reaches itself and its direct    *)
(* neighbours.  A broadcast is put in every inbox; the records of a         *)
(* transmitter out of reach are never handed to packet_reception and are    *)
(* left out.  Grad sets enable_ack to False and its messages are broadcast, *)
(* so there is no ACK wait, no retransmission and no TTL increase: a MAC    *)
(* send is one step.  One tick of outcome.time is 5 s (entry_life_time of   *)
(* the cost table; PACKET_LIFETIME is two ticks).  outcome.created holds    *)
(* the arguments of every GradMessage constructed, outcome.transmissions    *)
(* the number of MAC sends of each message id.                              *)

\* GL_ID_GRAD_MESSAGE of grad.py, remaining_value of an M_REQUEST, and
\* entry_life_time of GradCostTable in ticks of 5 s
GL_ID_GRAD_MESSAGE == 5000
grad_request_value == 20
grad_entry_life_time == 1

\* the ids of the messages of a run
GradIds == (GL_ID_GRAD_MESSAGE + 1) .. (GL_ID_GRAD_MESSAGE + MaxGradMessages)

\* GradMessage.__init__: a message of kind msg_type; a data packet waiting in
\* a queue is a record of the same shape of kind "data"
GradMessage(id, msg_type, originator, target, remaining_value, t, data) ==
    [kind |-> msg_type, id |-> id, originator |-> originator, target |-> target,
     accrued_cost |-> 0, remaining_value |-> remaining_value, creation_time |-> t,
     data |-> data]

\* GradCostTable.update_entry of drone me for the message msg at cur_time
update_entry(table, msg, me, cur_time) ==
    LET fresh == [seq_num |-> msg.id, est_cost |-> msg.accrued_cost,
                  updated_time |-> cur_time]
        with(e) == [k \in DOMAIN table \cup {msg.originator} |->
                      IF k = msg.originator THEN e ELSE table[k]]
    IN  IF msg.originator = me THEN table
        ELSE IF msg.originator \notin DOMAIN table THEN with(fresh)
        ELSE IF table[msg.originator].seq_num < msg.id THEN with(fresh)
        ELSE IF msg.accrued_cost < table[msg.originator].est_cost
             THEN with([table[msg.originator] EXCEPT !.est_cost = msg.accrued_cost,
                                                     !.updated_time = cur_time])
             ELSE table

\* faulty variant of relays: the estimated cost is not compared
relays_any_cost(table, packet_copy, end_point) ==
    /\ packet_copy.remaining_value > 0
    /\ end_point \in DOMAIN table

\* Grad.packet_reception, branches M_DATA and M_REPLY of a drone that is not
\* the end point: whether packet_copy is put in the transmitting queue
relays(table, packet_copy, end_point) ==
    /\ packet_copy.remaining_value > 0
    /\ end_point \in DOMAIN table
    /\ table[end_point].est_cost <= packet_copy.remaining_value

\* faulty variant of first_copy: every copy of a request is relayed
first_copy_unflagged(flag, packet_copy, me) ==
    /\ packet_copy.kind = "M_REQUEST"
    /\ me # packet_copy.target
    /\ packet_copy.remaining_value > 0

\* Grad.packet_reception, branch M_REQUEST of a drone that is not the target:
\* whether packet_copy is marked in flag and put in the transmitting queue
first_copy(flag, packet_copy, me) ==
    /\ packet_copy.kind = "M_REQUEST"
    /\ me # packet_copy.target
    /\ packet_copy.remaining_value > 0
    /\ packet_copy.id \notin flag

\* the inter-arrival timeout of generate_data_packet fires at drone n
grad_generate_data_packet(n, dst_id) ==
    /\ dst_id # n
    /\ outcome.GLOBAL_DATA_PACKET_ID < MaxDataIds
    /\ LET id  == outcome.GLOBAL_DATA_PACKET_ID + 1
           pkd == GradMessage(id, "data", n, dst_id, 0, outcome.time, id)
       IN  outcome' = [outcome EXCEPT
                          !.GLOBAL_DATA_PACKET_ID = id,
                          !.transmitting_queue[n] =
                              IF Len(@) < MAX_QUEUE_SIZE THEN Append(@, pkd) ELSE @]
    /\ call' = [op |-> "generate_data_packet", me |-> n, packet |-> << >>,
                put |-> << >>]
    /\ UNCHANGED << pipeline_vars, channel_vars >>

\* one round of feed_packet at drone n with a packet in the queue: the
\* deadline test, Grad.next_hop_selection for a data packet (purge, has_entry,
\* the message M_DATA, or waiting_list.append and the message M_REQUEST), and
\* the MAC send of the message, here Channel.broadcast_put.  A message needs
\* an id below the bound.
grad_feed_packet(n) ==
    /\ outcome.transmitting_queue[n] # << >>
    /\ LET packet == Head(outcome.transmitting_queue[n])
           alive  == outcome.time < packet.creation_time + PACKET_LIFETIME
           old    == outcome.cost_table[n]
           purged == [k \in { j \in DOMAIN old :
                                 ~(old[j].updated_time + grad_entry_life_time
                                      < outcome.time) } |-> old[k]]
           has_route == packet.target \in DOMAIN purged
           id     == outcome.GL_ID_GRAD_MESSAGE + 1
           grad_message ==
               IF has_route
               THEN GradMessage(id, "M_DATA", n, packet.target,
                                purged[packet.target].est_cost, outcome.time,
                                packet.data)
               ELSE GradMessage(id, "M_REQUEST", n, packet.target,
                                grad_request_value, outcome.time, 0)
           final  == IF packet.kind = "data" THEN grad_message ELSE packet
           reach  == { k \in Nodes : k - n \in {-1, 0, 1} }
       IN  /\ (alive /\ packet.kind = "data") =>
                   outcome.GL_ID_GRAD_MESSAGE < GL_ID_GRAD_MESSAGE + MaxGradMessages
           /\ outcome' =
                 IF ~alive
                 THEN [outcome EXCEPT !.transmitting_queue[n] = Tail(@)]
                 ELSE [outcome EXCEPT
                          !.transmitting_queue[n] = Tail(@),
                          !.cost_table[n] = IF packet.kind = "data" THEN purged ELSE @,
                          !.waiting_list[n] =
                              IF packet.kind = "data" /\ ~has_route
                              THEN Append(@, packet) ELSE @,
                          !.GL_ID_GRAD_MESSAGE =
                              IF packet.kind = "data" THEN id ELSE @,
                          !.created =
                              IF packet.kind = "data"
                              THEN @ \cup {[id |-> id, kind |-> final.kind,
                                            remaining_value |-> final.remaining_value]}
                              ELSE @,
                          !.transmissions[final.id] = @ + 1,
                          !.inbox = [k \in Nodes |->
                                        IF k \in reach THEN Append(@[k], final)
                                        ELSE @[k]]]
           /\ call' = [op |-> "feed_packet", me |-> n,
                       packet |-> IF alive THEN << final >> ELSE << >>,
                       put |-> << >>]
    /\ UNCHANGED << pipeline_vars, channel_vars >>

\* the receive tick of drone n hands the first record of its inbox to
\* Grad.packet_reception.  A REPLY needs an id below the bound.
grad_packet_reception(n) ==
    /\ outcome.inbox[n] # << >>
    /\ LET packet      == Head(outcome.inbox[n])
           packet_copy == [packet EXCEPT !.remaining_value = @ - 1,
                                         !.accrued_cost = @ + 1]
           table       == update_entry(outcome.cost_table[n], packet_copy, n,
                                       outcome.time)
           id          == outcome.GL_ID_GRAD_MESSAGE + 1
           reply       == GradMessage(id, "M_REPLY", n, packet.originator,
                                      table[packet.originator].est_cost,
                                      outcome.time, 0)
           answers     == packet.kind = "M_REQUEST" /\ n = packet.target
           relayed     == first_copy(outcome.flag[n], packet_copy, n)
           parked      == SelectSeq(outcome.waiting_list[n],
                                    LAMBDA item : item.target = packet.originator)
           queued == CASE answers -> << reply >>
                    [] relayed -> << packet_copy >>
                    [] packet.kind = "M_DATA" /\ n # packet.target
                       /\ relays(table, packet_copy, packet.target) -> << packet_copy >>
                    [] packet.kind = "M_REPLY" /\ n = packet.target -> parked
                    [] packet.kind = "M_REPLY" /\ n # packet.target
                       /\ relays(table, packet_copy, packet.target) -> << packet_copy >>
                    [] OTHER -> << >>
       IN  /\ answers =>
                 outcome.GL_ID_GRAD_MESSAGE < GL_ID_GRAD_MESSAGE + MaxGradMessages
           /\ outcome' = [outcome EXCEPT
                 !.inbox[n] = Tail(@),
                 !.cost_table[n] = table,
                 !.flag[n] = IF relayed THEN @ \cup {packet.id} ELSE @,
                 !.GL_ID_GRAD_MESSAGE = IF answers THEN id ELSE @,
                 !.created = IF answers
                             THEN @ \cup {[id |-> id, kind |-> "M_REPLY",
                                           remaining_value |-> reply.remaining_value]}
                             ELSE @,
                 !.datapacket_arrived =
                     IF packet.kind = "M_DATA" /\ n = packet.target
                     THEN @ \cup {packet.data} ELSE @,
                 !.transmitting_queue[n] = @ \o queued]
           /\ call' = [op |-> "packet_reception", me |-> n, packet |-> << packet >>,
                       put |-> queued]
    /\ UNCHANGED << pipeline_vars, channel_vars >>

\* 5 s of simulated time pass: the queues and inboxes, served every 10 us and
\* every 5 us, have been emptied
grad_clock_tick ==
    /\ outcome.time < MaxTime
    /\ \A n \in Nodes : outcome.transmitting_queue[n] = << >> /\ outcome.inbox[n] = << >>
    /\ outcome' = [outcome EXCEPT !.time = @ + 1]
    /\ call' = [op |-> "tick", me |-> NoNode, packet |-> << >>, put |-> << >>]
    /\ UNCHANGED << pipeline_vars, channel_vars >>

InitGrad ==
    /\ InitProgram
    /\ call = [op |-> "init", me |-> NoNode, packet |-> << >>, put |-> << >>]
    /\ outcome = [cost_table |-> [n \in Nodes |-> << >>],
                  flag |-> [n \in Nodes |-> {}],
                  transmitting_queue |-> [n \in Nodes |-> << >>],
                  waiting_list |-> [n \in Nodes |-> << >>],
                  inbox |-> [n \in Nodes |-> << >>],
                  GLOBAL_DATA_PACKET_ID |-> 0,
                  GL_ID_GRAD_MESSAGE |-> GL_ID_GRAD_MESSAGE,
                  created |-> {},
                  transmissions |-> [id \in GradIds |-> 0],
                  datapacket_arrived |-> {},
                  time |-> 0]

NextGrad ==
    \/ \E dst_id \in {1, 2} : grad_generate_data_packet(0, dst_id)
    \/ \E n \in Nodes : grad_feed_packet(n)
    \/ \E n \in Nodes : grad_packet_reception(n)
    \/ grad_clock_tick

SpecGrad == InitGrad /\ [][NextGrad]_vars

----------------------------------------------------------------------------
(* The tables of Qldv: routing/qldv/qldv_table.py, routing/qldv/qldv.py.    *)
(*                                                                          *)
(* A Q value is held as 64 times its value (gamma = 3/4 leaves integers for *)
(* routes of up to three hops).  q_table[dst] is the sequence of the pairs  *)
(* << action, Q >> in the order in which the dictionary received its keys.  *)
(* Every drone hears itself and the drones within outcome.range on the x    *)
(* axis.                                                                    *)

\* the loop of get_update_material and of purge over the actions of one
\* destination: the first action with the largest Q value
max_q_of(actions) ==
    IF actions = << >> THEN [max_q |-> -64000, action |-> NoNode]
    ELSE LET i == CHOOSE i \in 1 .. Len(actions) :
                     /\ \A j \in 1 .. Len(actions) : actions[j][2] <= actions[i][2]
                     /\ \A j \in 1 .. (i - 1) : actions[j][2] < actions[i][2]
         IN  [max_q |-> actions[i][2], action |-> actions[i][1]]

\* QldvTable.get_update_material: per recorded destination, the max Q value
\* and its action
get_update_material(q) == [dst_id \in DOMAIN q |-> max_q_of(q[dst_id])]

\* faulty variant of updates: no loop prevention
updates_always(me, dst_id, action_for_max_q) == TRUE

\* QldvTable.regular_update: the test "prevent from routing loop"
updates(me, dst_id, action_for_max_q) == action_for_max_q # me /\ dst_id # me

\* QldvTable.regular_update of drone me for a hello packet of action_id
regular_update(table, me, action_id, update_material) ==
    LET value(dst_id) ==
            IF action_id = dst_id THEN 64
            ELSE (3 * update_material[dst_id].max_q) \div 4
        touched == { dst_id \in DOMAIN update_material :
                        /\ action_id # me
                        /\ updates(me, dst_id, update_material[dst_id].action) }
        entry(dst_id) ==
            IF dst_id \notin DOMAIN table.q_table
            THEN << << action_id, value(dst_id) >> >>
            ELSE LET old == table.q_table[dst_id]
                 IN  IF \E i \in 1 .. Len(old) : old[i][1] = action_id
                     THEN [i \in 1 .. Len(old) |->
                             IF old[i][1] = action_id
                             THEN << action_id, value(dst_id) >> ELSE old[i]]
                     ELSE Append(old, << action_id, value(dst_id) >>)
    IN  [neighbor_table |-> table.neighbor_table \cup {action_id},
         q_table |-> [dst_id \in DOMAIN table.q_table \cup touched |->
                        IF dst_id \in touched THEN entry(dst_id)
                        ELSE table.q_table[dst_id]]]

\* Qldv.broadcast_hello_packet at drone n, the hello packet on the air
qldv_broadcast_hello_packet(n) ==
    /\ outcome.hellos < MaxQldvHellos
    /\ LET hello_pkd == [src |-> n,
                         update_material |-> get_update_material(outcome.table[n].q_table)]
       IN  outcome' = [outcome EXCEPT
                          !.hellos = @ + 1,
                          !.inbox = [k \in Nodes |->
                                       IF Abs(k - n) <= outcome.range
                                       THEN Append(@[k], hello_pkd) ELSE @[k]]]
    /\ call' = [op |-> "broadcast_hello_packet", me |-> n, packet |-> << >>]
    /\ UNCHANGED << pipeline_vars, channel_vars >>

\* Qldv.packet_reception at drone n for the first hello packet of its inbox
qldv_packet_reception(n) ==
    /\ outcome.inbox[n] # << >>
    /\ LET packet == Head(outcome.inbox[n])
       IN  /\ outcome' = [outcome EXCEPT
                             !.inbox[n] = Tail(@),
                             !.table[n] = regular_update(@, n, packet.src,
                                                         packet.update_material)]
           /\ call' = [op |-> "packet_reception", me |-> n, packet |-> << packet >>]
    /\ UNCHANGED << pipeline_vars, channel_vars >>

InitQldv ==
    /\ InitProgram
    /\ call = [op |-> "init", me |-> NoNode, packet |-> << >>]
    /\ \E range \in {1, 2} :
          outcome = [table |-> [n \in Nodes |->
                                  [neighbor_table |-> {},
                                   q_table |-> [dst_id \in {n} |-> << << n, 64 >> >>]]],
                     inbox |-> [n \in Nodes |-> << >>],
                     hellos |-> 0,
                     range |-> range]

NextQldv ==
    \/ \E n \in Nodes : qldv_broadcast_hello_packet(n)
    \/ \E n \in Nodes : qldv_packet_reception(n)

SpecQldv == InitQldv /\ [][NextQldv]_vars

----------------------------------------------------------------------------
(* The sends of one drone and their listeners: packet_coming of              *)
(* entities/drone.py, mac_send and listen of mac/csma_ca.py.  busy is        *)
(* whether check_channel_availability finds the channel occupied; a listener *)
(* carries the key it computed when it started                               *)

\* a listener that does not test mac_process_finish
listens_on(finish, key) == TRUE

\* CsmaCa.listen, the test of its while loop: the send of the listener's key
\* is not marked finished
listens(finish, key) == finish[key] = 0

\* Drone.packet_coming, called by feed_packet, which waits for it: the buffer
\* is requested, mac_process_count is increased and mac_send is started
csma_packet_coming ==
    /\ outcome.pc = "idle"
    /\ outcome.mac_process_count < MaxSends
    /\ outcome' = [outcome EXCEPT
                      !.mac_process_count = @ + 1,
                      !.mac_process_finish = Append(@, 0),
                      !.in_progress = @ + 1,
                      !.pc = "wait_idle"]
    /\ call' = [op |-> "packet_coming", key |-> outcome.mac_process_count + 1]
    /\ UNCHANGED << pipeline_vars, channel_vars >>

\* CsmaCa.mac_send: wait_idle_channel returns, a listener is started and the
\* countdown begins
csma_wait_idle_channel ==
    /\ outcome.pc = "wait_idle"
    /\ ~outcome.busy
    /\ outcome.started < MaxListeners
    /\ outcome' = [outcome EXCEPT
                      !.started = @ + 1,
                      !.listeners = @ \cup {[key |-> outcome.mac_process_count,
                                              id |-> outcome.started + 1]},
                      !.pc = "countdown"]
    /\ call' = [op |-> "wait_idle_channel", key |-> outcome.mac_process_count]
    /\ UNCHANGED << pipeline_vars, channel_vars >>

\* CsmaCa.listen, one round of the while loop of listener l: it ends when the
\* send of its key is marked finished; on a busy channel it interrupts the
\* process of the current key unless that process has ended, and ends.  The
\* interrupt is raised in mac_send where it waits: in the countdown or in the
\* transmission the except branch sets a new to_wait and the loop goes on, in
\* wait_idle_channel nothing catches it
csma_listen(l) ==
    /\ l \in outcome.listeners
    /\ LET key == outcome.mac_process_count
       IN  IF ~listens(outcome.mac_process_finish, l.key)
           THEN outcome' = [outcome EXCEPT !.listeners = @ \ {l}]
           ELSE IF outcome.busy /\ outcome.pc # "idle"
           THEN outcome' = [outcome EXCEPT
                               !.listeners = @ \ {l},
                               !.interrupted = @ \cup
                                   {[listener |-> l.key, key |-> key,
                                     finish |-> outcome.mac_process_finish[key],
                                     pc |-> outcome.pc]},
                               !.pc = IF outcome.pc = "wait_idle" THEN "failed"
                                      ELSE "wait_idle"]
           ELSE UNCHANGED outcome
    /\ call' = [op |-> "listen", key |-> l.key]
    /\ UNCHANGED << pipeline_vars, channel_vars >>

\* CsmaCa.mac_send: the timeout of the countdown ends, the send of the current
\* key is marked finished and the transmission starts
csma_countdown_ends ==
    /\ outcome.pc = "countdown"
    /\ outcome' = [outcome EXCEPT
                      !.mac_process_finish[outcome.mac_process_count] = 1,
                      !.pc = "transmit"]
    /\ call' = [op |-> "mac_send", key |-> outcome.mac_process_count]
    /\ UNCHANGED << pipeline_vars, channel_vars >>

\* CsmaCa.mac_send ends after the transmission; packet_coming releases the
\* buffer
csma_transmit_done ==
    /\ outcome.pc = "transmit"
    /\ outcome' = [outcome EXCEPT !.in_progress = @ - 1, !.pc = "idle"]
    /\ call' = [op |-> "transmit_done", key |-> outcome.mac_process_count]
    /\ UNCHANGED << pipeline_vars, channel_vars >>

\* another drone within SENSING_RANGE takes or releases its channel resource
csma_channel_changes ==
    /\ outcome' = [outcome EXCEPT !.busy = ~@]
    /\ call' = [op |-> "channel", key |-> 0]
    /\ UNCHANGED << pipeline_vars, channel_vars >>

InitListen ==
    /\ InitProgram
    /\ call = [op |-> "init", key |-> 0]
    /\ outcome = [mac_process_count |-> 0, mac_process_finish |-> << >>,
                  in_progress |-> 0, pc |-> "idle", listeners |-> {}, started |-> 0,
                  busy |-> FALSE, interrupted |-> {}]

NextListen ==
    \/ csma_packet_coming
    \/ csma_wait_idle_channel
    \/ \E l \in outcome.listeners : csma_listen(l)
    \/ csma_countdown_ends
    \/ csma_transmit_done
    \/ csma_channel_changes

SpecListen == InitListen /\ [][NextListen]_vars

----------------------------------------------------------------------------
(* The report at the horizon: simulator/metrics.py, show_performance of      *)
(* simulator/simulator.py.  np.mean of an empty list is nan and raises       *)
(* nothing; a division by an int that is 0 raises ZeroDivisionError          *)

\* Metrics.print_metrics: pdr divides by datapacket_generated_num, rl by
\* len(datapacket_arrived)
print_metrics(generated_num, arrived, control_num) ==
    IF generated_num = 0 THEN Raised("ZeroDivisionError")
    ELSE IF Len(arrived) = 0 THEN Raised("ZeroDivisionError")
    ELSE Returned(0, FALSE, NoPacket, FALSE)

\* Simulator.show_performance: the timeout of total_simulation_time - 1 ends
\* and print_metrics is called
show_performance ==
    /\ ~outcome.done
    /\ outcome' = print_metrics(datapacket_generated_num, datapacket_arrived,
                                control_packet_num)
    /\ UNCHANGED << call, pipeline_vars, channel_vars >>

NextMetrics ==
    \/ ~outcome.done /\ Traffic({0}, {1}, {1}, FALSE)
    \/ /\ ~outcome.done
       /\ \E id \in DataIds : packet_expires(id)
       /\ UNCHANGED << channel_vars, selection_vars >>
    \/ show_performance

SpecMetrics == Init /\ [][NextMetrics]_vars

----------------------------------------------------------------------------
(* Properties of the packet pipeline *)

\* every packet object that exists in the network: queued, waiting for a
\* route, held by a MAC send, held by an ACK wait, or in an inbox
PacketsAt(n) ==
    { transmitting_queue[n][i] : i \in 1 .. Len(transmitting_queue[n]) }
    \cup { waiting_list[n][i] : i \in 1 .. Len(waiting_list[n]) }
    \cup { inbox[n][i].packet : i \in 1 .. Len(inbox[n]) }
    \cup { w.pkd : w \in wait_ack_process_dict[n] }
    \cup (IF sending[n] # NoPacket THEN {sending[n]} ELSE {})

\* node n is inside the "with self.buffer.request()" block of packet_coming
InBuffer(n) == Contains(buffer[n].users, n) /\ sending[n] # NoPacket

\* C1: in every reachable state every node's transmitting_queue holds at most
\* MAX_QUEUE_SIZE packets, whichever operation enqueued them
C1_QueueBound ==
    \A n \in Nodes : Len(transmitting_queue[n]) <= MAX_QUEUE_SIZE

\* C2: a node's buffer has at most one holder and no request is ever left
\* waiting on it: whenever the feeder is back at its loop (after a normal end of
\* mac_send or after interrupted countdowns) the buffer has been released
C2_BufferReleased ==
    \A n \in Nodes :
        /\ Len(buffer[n].users) <= 1
        /\ Len(buffer[n].queue) = 0
        /\ feed_pc[n] # "request"
        /\ (feed_pc[n] \in {"tick", "stopped"} => buffer[n] = FreeResource)

\* a second packet_coming of a node holds the buffer that the first one released
C2_Witness ==
    \E n \in Nodes : mac_process_count[n] >= 2 /\ buffer[n].users = << n >>

\* C3: the TTL of every packet is at most MAX_TTL in every reachable state
C3_TtlBound ==
    \A n \in Nodes : \A p \in PacketsAt(n) : get_current_ttl(p) <= MAX_TTL

\* C4: no data packet id is inside the buffer critical section of two
\* different nodes at the same instant
C4_OneBufferPerPacket ==
    \A n, m \in Nodes :
        (n # m /\ InBuffer(n) /\ InBuffer(m)
            /\ sending[n].kind = "data" /\ sending[m].kind = "data")
        => sending[n].id # sending[m].id

\* C5: each packet id contributes at most once to datapacket_arrived, also
\* when the destination receives the packet several times
C5_AtMostOnce ==
    \A i, j \in 1 .. Len(datapacket_arrived) :
        i # j => datapacket_arrived[i] # datapacket_arrived[j]

\* a destination has received the same data packet twice
C5_Witness ==
    \E id \in DataIds : obs_delivered[id] >= 2 /\ Contains(datapacket_arrived, id)

\* C6: the delivered count is at most datapacket_generated_num
C6_PdrBound == Len(datapacket_arrived) <= datapacket_generated_num

\* every generated packet has been delivered
C6_Witness ==
    datapacket_generated_num >= 1 /\ Len(datapacket_arrived) = datapacket_generated_num

AcksInPreparation(id) ==
    Cardinality({ n \in Nodes : /\ recv_pc[n] = "sifs"
                                /\ pending_ack[n].ack_packet.id = id
                                /\ pending_ack[n].ack_packet.dst = n })

----------------------------------------------------------------------------
(* Properties of route selection, sleep and energy *)

\* the entry of key k in the table of node n is within its lifetime
Fresh(n, k) == now - updated_time[n][k] <= entry_life_time

\* the next hops that the best_neighbor calls of check_waiting_list return
\* when the checker of node n runs in the present state
returned_to_checker(n) ==
    check_loop(n, 1, << waiting_list[n], transmitting_queue[n], have_void_area[n], {} >>)[4]

\* C8: every entry that a selection query returns as next hop (by
\* next_hop_selection in feed_packet, or by the best_neighbor call of
\* check_waiting_list) satisfies now - updated_time <= entry_life_time
C8_FreshSelection ==
    [][ \A n \in Nodes :
          /\ (check_waiting_list(n) => \A k \in returned_to_checker(n) : Fresh(n, k))
          /\ ((feed_pc[n] = "tick" /\ feed_pc'[n] \in {"countdown", "wait_idle"}
                 /\ sending'[n].kind = "data")
              => Fresh(n, sending'[n].next_hop_id)) ]_vars

\* node n takes a packet from its transmitting_queue in this step
dequeues(n) ==
    \E old \in SUBSET Nodes, late \in BOOLEAN :
       feed_packet(n, old, late) /\ Len(transmitting_queue'[n]) < Len(transmitting_queue[n])

\* node n hands a received frame to its routing layer in this step
hands_to_routing(n) ==
    \E k \in 1 .. Len(inbox[n]) : \E winner \in 1 .. k :
       receive(n, 1 .. k, winner) /\ get_current_ttl(inbox[n][winner].packet) < MAX_TTL

C11_EnergyNonNegative ==
    \A n \in Nodes : residual_energy[n] >= 0

----------------------------------------------------------------------------
(* Properties of the channel in simulated time *)

\* the intervals of two inbox records share more than an end point
Overlap(f, g) == has_intersection(f, g, FALSE)

\* C12: whenever a receiver has processed two frames of different transmitters
\* that overlap in time in its inbox, collision_num has been incremented, also
\* when the two frames were complete at different ticks of receive
C12_CollisionCounted ==
    \A n \in Nodes : \A i, j \in 1 .. Len(frames[n]) :
        ( /\ i < j
          /\ frames[n][i].processed = 1 /\ frames[n][j].processed = 1
          /\ frames[n][i].transmitter # frames[n][j].transmitter
          /\ Overlap(frames[n][i], frames[n][j]) )
        => collision_num >= 1

\* C13: among the frames that overlap in time in the inbox of one receiver, at
\* most one has been handed to packet_reception, also when the frames were
\* complete at different ticks of receive
C13_OneHandedPerOverlap ==
    \A n \in Nodes : \A i, j \in 1 .. Len(frames[n]) :
        ( /\ i < j
          /\ Overlap(frames[n][i], frames[n][j]) )
        => ~(frames[n][i].handed /\ frames[n][j].handed)

----------------------------------------------------------------------------
(* Properties of the waiting list and of next hop selection *)

\* the data packet with identifier id is in the sequence s
HoldsId(s, id) == \E i \in 1 .. Len(s) : s[i].kind = "data" /\ s[i].id = id

\* C14: a data packet parked in waiting_list whose deadline has not passed
\* leaves the list only by being moved to transmitting_queue; it is removed
\* without being enqueued again only once its deadline has passed
C14_ParkedWhileUnexpired ==
    [][ \A n \in Nodes : \A id \in DataIds :
            ( /\ HoldsId(waiting_list[n], id)
              /\ id \notin expired
              /\ ~HoldsId(waiting_list'[n], id) )
            => ( /\ ~HoldsId(transmitting_queue[n], id)
                 /\ HoldsId(transmitting_queue'[n], id) ) ]_vars

\* the table of call c holds no entry after the purge of its variant
no_valid_neighbor(c) ==
    \A k \in Nodes :
        \/ c.table[k] = Absent
        \/ IF c.variant = "q_routing" THEN c.table[k] + entry_life_time <= c.now
           ELSE c.table[k] + entry_life_time < c.now

\* C15: for the variants with a neighbour table (GPSR, Q-routing, QGeo), a
\* call of next_hop_selection made when the node has no valid neighbour raises
\* nothing and returns has_route = false, at any simulated time
C15_NoRouteWithoutNeighbor ==
    ( /\ outcome.done
      /\ call.variant \in {"gpsr", "q_routing", "qgeo"}
      /\ no_valid_neighbor(call) )
    => ( /\ outcome.raised = "none"
         /\ outcome.arity = 3
         /\ outcome.has_route = FALSE )

\* C16: every call of next_hop_selection that returns, of every variant,
\* returns the triple (has_route, packet_to_send, ask_now), and when has_route
\* is true the packet is the input packet with next_hop_id set to a drone
\* other than the selecting one
C16_TripleWithNextHop ==
    ( outcome.done /\ outcome.raised = "none" )
    => ( /\ outcome.arity = 3
         /\ outcome.has_route =>
               ( /\ outcome.kind = "data"
                 /\ outcome.id = call_packet(call).id
                 /\ outcome.next_hop_id \in Nodes \ {call.me} ) )

(* Properties of receive when packet_reception raises *)

\* C17: an exception raised inside packet_reception of the routing module
\* does not end the receive activity of the drone: receive is never left by
\* an exception
C17_ReceiveSurvives == \A n \in Nodes : recv_pc[n] # "error"

(* Properties of the channel's put operations *)

\* C18: a unicast to a dst_id with a registered inbox appends exactly one
\* record to that inbox and leaves every other inbox and the set of registered
\* inboxes unchanged; a unicast to a dst_id without a registered inbox logs an
\* error and leaves pipes unchanged
C18_UnicastAppendsOne ==
    ( outcome.done /\ call.op = "unicast_put" )
    => IF call.dst_id \in DOMAIN call.pipes
       THEN /\ DOMAIN outcome.pipes = DOMAIN call.pipes
            /\ outcome.pipes[call.dst_id] = Append(call.pipes[call.dst_id], call.value)
            /\ \A key \in DOMAIN call.pipes \ {call.dst_id} :
                  outcome.pipes[key] = call.pipes[key]
       ELSE /\ outcome.errors = 1
            /\ outcome.pipes = call.pipes

(* Properties of two runs from the same seeds *)

C21_FeederResumes ==
    \A n \in Nodes : wait_ack_process_dict[n] = {} => ~blocking(n)

\* C22: with head-of-line blocking enabled, no step takes a packet from the
\* transmitting_queue of a node that has an ACK wait outstanding
C22_NoDequeueWhileWaiting ==
    [][ \A n \in Nodes :
          Len(transmitting_queue'[n]) < Len(transmitting_queue[n])
          => wait_ack_process_dict[n] = {} ]_vars

\* the feeder of a node is at its tick with a packet queued while an ACK wait
\* of the node is outstanding
C22_Witness ==
    \E n \in Nodes : /\ wait_ack_process_dict[n] # {}
                     /\ feed_pc[n] = "tick"
                     /\ Len(transmitting_queue[n]) > 0

C24_AttemptsBounded ==
    /\ \A id \in DataIds : \A n \in Nodes :
          number_retransmission_attempt[id][n] <= MAX_RETRANSMISSION_ATTEMPT
    /\ call.op \in {"feed_packet", "wait_ack", "resend"}
          => outcome.number_retransmission_attempt <= MAX_RETRANSMISSION_ATTEMPT

(* Properties of the countdown of CSMA/CA *)

\* C25: after each interruption of the countdown: if the remaining wait
\* exceeded the backoff, the backoff is kept and the next wait is
\* DIFS + backoff; otherwise the backoff is the remaining wait and the next
\* wait is DIFS + remaining; the backoff never increases, the wait is always
\* DIFS + backoff, and after an interruption that came once DIFS had elapsed
\* the backoff is strictly smaller than before and than the one drawn
C25_FreezeRule ==
    outcome.interruptions > 0
    => LET remaining == outcome.before.to_wait - outcome.before.already_wait
       IN  /\ remaining > outcome.before.backoff
              => /\ outcome.backoff = outcome.before.backoff
                 /\ outcome.to_wait = DIFS_DURATION + outcome.before.backoff
           /\ remaining <= outcome.before.backoff
              => /\ outcome.backoff = remaining
                 /\ outcome.to_wait = DIFS_DURATION + remaining
           /\ outcome.backoff <= outcome.before.backoff
           /\ outcome.backoff <= call.backoff
           /\ outcome.backoff >= 0
           /\ outcome.to_wait = DIFS_DURATION + outcome.backoff
           /\ outcome.before.already_wait >= DIFS_DURATION
              => /\ outcome.backoff < outcome.before.backoff
                 /\ outcome.backoff < call.backoff

\* a countdown interrupted three times, the last time during its backoff,
\* which left a positive backoff more than two slots below the one drawn
C25_Witness ==
    /\ outcome.interruptions >= 3
    /\ outcome.before.already_wait >= DIFS_DURATION
    /\ outcome.backoff > 0
    /\ outcome.backoff + 2 * SLOT_DURATION < call.backoff

(* Properties of the transmission of CSMA/CA *)

C27_UpdateRule ==
    [][ \A << n, src >> \in outcome'.received \ outcome.received :
          \A dst_id \in DOMAIN outcome.routing_table[n] :
             LET stored == outcome.routing_table[n][dst_id]
                 new == outcome'.routing_table[n][dst_id]
             IN  new # stored
                 => /\ dst_id \in DOMAIN outcome.routing_table[src]
                    /\ LET advertised == outcome.routing_table[src][dst_id]
                       IN  /\ new = [next_hop |-> src,
                                     metric |-> plus(advertised.metric, 1),
                                     seq_num |-> advertised.seq_num,
                                     updated_time |-> outcome.time]
                           /\ \/ advertised.seq_num > stored.seq_num
                              \/ /\ advertised.seq_num = stored.seq_num
                                 /\ plus(advertised.metric, 1) < stored.metric ]_vars

\* C28: in every routing table an entry has metric infinity exactly when its
\* sequence number is odd
C28_InfinityIffOdd ==
    \A n \in Nodes : \A dst_id \in DOMAIN outcome.routing_table[n] :
       (outcome.routing_table[n][dst_id].metric = Inf)
          <=> (outcome.routing_table[n][dst_id].seq_num % 2 = 1)

\* C29: a route that is still valid goes through a neighbor heard less than
\* 2 * entry_life_time ago; a drone that invalidates a route at a detection
\* has an update to broadcast; next_hop_selection returns has_route = False
\* for a destination whose metric is infinity and the stored next hop
\* otherwise; an invalid route becomes valid again only by an advertisement of
\* a newer sequence number, or of the same one with a finite metric
C29_BrokenLink ==
    [][ /\ \A n \in Nodes : \A dst_id \in DOMAIN outcome'.routing_table[n] \ {n} :
              outcome'.routing_table[n][dst_id].metric # Inf
              => outcome'.time - outcome'.heard[n][outcome'.routing_table[n][dst_id].next_hop]
                    < 2 * dsdv_entry_life_time
        /\ \A n \in Nodes : \A dst_id \in DOMAIN outcome.routing_table[n] :
              LET stored == outcome.routing_table[n][dst_id]
                  new == outcome'.routing_table[n][dst_id]
              IN  /\ (stored.metric # Inf /\ new.metric = Inf /\ call'.op = "purge")
                        => n \in outcome'.urgent
                  /\ (stored.metric = Inf /\ new.metric # Inf)
                        => \E << m, src >> \in outcome'.received \ outcome.received :
                              /\ m = n
                              /\ dst_id \in DOMAIN outcome.routing_table[src]
                              /\ outcome.routing_table[src][dst_id].metric # Inf
                              /\ outcome.routing_table[src][dst_id].seq_num >= stored.seq_num
        /\ call'.op = "next_hop_selection"
              => IF call'.dst \in DOMAIN outcome.routing_table[call'.me]
                    /\ outcome.routing_table[call'.me][call'.dst].metric # Inf
                 THEN /\ call'.has_route
                      /\ call'.next_hop_id = outcome.routing_table[call'.me][call'.dst].next_hop
                 ELSE ~call'.has_route ]_vars

\* drone 0 had a route to drone 2 through drone 1, drone 1 sleeps, the route
\* is invalid less than 2 * entry_life_time after drone 1 was heard last, drone
\* 0 has an update to broadcast and next_hop_selection has found no route
C29_Witness ==
    /\ 1 \in outcome.sleep
    /\ 2 \in DOMAIN outcome.routing_table[0]
    /\ outcome.routing_table[0][2].next_hop = 1
    /\ outcome.routing_table[0][2].metric = Inf
    /\ outcome.heard[0][1] >= 0
    /\ outcome.time - outcome.heard[0][1] < 2 * dsdv_entry_life_time
    /\ 0 \in outcome.urgent
    /\ call.op = "next_hop_selection"
    /\ ~call.has_route

(* Properties of the selection of GPSR *)

\* C30: a call of the selection of GPSR returns a neighbor of minimum distance
\* to the destination when some neighbor of the purged table is strictly
\* closer to the destination than the drone itself, and a neighbor of smallest
\* angle when the purged table is not empty and no neighbor is strictly
\* closer, whatever the earlier calls have left in have_void_area
C30_GreedyThenAngle ==
    ( outcome.done /\ call.variant = "gpsr" )
    => LET keys == { k \in Nodes : /\ call.table[k] # Absent
                                   /\ ~(call.table[k] + entry_life_time < call.now) }
           distance(k) == euclidean_distance(neighbor_position(k), coords[call.dst])
           closer == { k \in keys :
                         distance(k) < euclidean_distance(coords[call.me], coords[call.dst]) }
           \* best_id: next_hop_selection reports no route when it is the drone itself
           best_id == IF outcome.has_route THEN outcome.next_hop_id ELSE call.me
       IN  IF closer # {}
           THEN /\ best_id \in closer
                /\ \A k \in closer : distance(best_id) <= distance(k)
           ELSE keys # {}
                => /\ best_id \in keys
                   /\ \A k \in keys : angle_deg(call.me, call.dst, best_id)
                                         <= angle_deg(call.me, call.dst, k)

----------------------------------------------------------------------------
(* Properties of Grad *)

\* the messages waiting in the queues and inboxes
GradFlight ==
    UNION { { outcome.transmitting_queue[n][i] :
                 i \in 1 .. Len(outcome.transmitting_queue[n]) }
            \cup { outcome.inbox[n][i] : i \in 1 .. Len(outcome.inbox[n]) } :
            n \in Nodes }

C37_ParkedOrQueued ==
    \A n \in Nodes :
       LET w == outcome.waiting_list[n]
           q == outcome.transmitting_queue[n]
       IN  /\ \A i, j \in 1 .. Len(w) : i # j => w[i].id # w[j].id
           /\ \A i \in 1 .. Len(w), j \in 1 .. Len(q) :
                  ~(q[j].kind = "data" /\ q[j].id = w[i].id)

\* C38: a drone relays an M_REQUEST only when the decremented remaining value
\* is positive and the id is not yet in its flag, and marks it; flag never
\* loses an id; every M_DATA and M_REPLY message on its way has a positive
\* remaining value and has made as many hops as its initial remaining value
\* has lost; a request is sent at most once per drone and a message of initial
\* value v at most v times NUMBER_OF_DRONES
C38_FloodingEnds ==
    [][ /\ \A n \in Nodes : outcome.flag[n] \subseteq outcome'.flag[n]
        /\ (/\ call'.op = "packet_reception"
            /\ outcome' # outcome
            /\ call'.packet[1].kind = "M_REQUEST"
            /\ call'.put # << >>
            /\ call'.me # call'.packet[1].target)
           => /\ call'.packet[1].remaining_value - 1 > 0
              /\ call'.packet[1].id \notin outcome.flag[call'.me]
              /\ call'.packet[1].id \in outcome'.flag[call'.me]
        /\ \A m \in GradFlight' :
              m.kind \in {"M_DATA", "M_REPLY"} =>
                 /\ m.remaining_value >= 1
                 /\ \E c \in outcome'.created :
                       /\ c.id = m.id /\ c.kind = m.kind
                       /\ m.accrued_cost + m.remaining_value = c.remaining_value
        /\ \A c \in outcome'.created :
              outcome'.transmissions[c.id] <=
                 IF c.kind = "M_REQUEST" THEN NUMBER_OF_DRONES
                 ELSE c.remaining_value * NUMBER_OF_DRONES
      ]_vars

\* a request has been sent by its originator and relayed, a copy of it has
\* been refused by a drone that had relayed it, and a reply has made its
\* last hop
C38_Witness ==
    /\ \E c \in outcome.created :
          c.kind = "M_REQUEST" /\ outcome.transmissions[c.id] = NUMBER_OF_DRONES
    /\ \E m \in GradFlight : m.kind = "M_REPLY" /\ m.remaining_value = 1
    /\ call.op = "packet_reception"
    /\ call.packet[1].kind = "M_REQUEST"
    /\ call.put = << >>
    /\ call.packet[1].id \in outcome.flag[call.me]

----------------------------------------------------------------------------
(* Properties of the tables of Qldv *)

\* C32: the reception of a hello packet leaves every Q value of a destination
\* alone whose advertised best action is the receiver or that is the receiver
\* itself, and leaves alone what the hello does not advertise; it creates no
\* record for such a destination
C32_LoopPrevention ==
    [][ (call'.op = "packet_reception" /\ outcome' # outcome) =>
           LET me       == call'.me
               material == call'.packet[1].update_material
               before   == outcome.table[me].q_table
               after    == outcome'.table[me].q_table
           IN  \A dst_id \in Nodes :
                  (\/ dst_id \notin DOMAIN material
                   \/ dst_id = me
                   \/ material[dst_id].action = me)
                  => /\ dst_id \in DOMAIN after <=> dst_id \in DOMAIN before
                     /\ dst_id \in DOMAIN before => after[dst_id] = before[dst_id]
      ]_vars

\* a drone has received a hello packet that advertises the drone itself as the
\* best action for a third drone, while another item of the same hello has
\* given it a Q value
C32_Witness ==
    /\ call.op = "packet_reception"
    /\ \E dst_id \in DOMAIN call.packet[1].update_material :
          /\ dst_id # call.me
          /\ call.packet[1].update_material[dst_id].action = call.me
    /\ \E dst_id \in DOMAIN outcome.table[call.me].q_table :
          \E i \in 1 .. Len(outcome.table[call.me].q_table[dst_id]) :
             outcome.table[call.me].q_table[dst_id][i][1] = call.packet[1].src

----------------------------------------------------------------------------
(* Properties of the path search of Opar *)

\* the links of a path of dijkstra (the mark -2 in front) all live longer
\* than the threshold
LinksOutlive(path, lifetime, threshold) ==
    \A k \in 2 .. Len(path) - 1 : lifetime[path[k]][path[k + 1]] > threshold

\* the passes of the while loop of next_hop_selection that follow a path
\* found with the cost matrix cost: each is run with the shortest lifetime of
\* the links of the last path, keeps to links that live longer, and returns
\* another path or none
RECURSIVE PassesDiffer(_, _, _, _)
PassesDiffer(cost, path, c, passes) ==
    IF path = << >> \/ passes = 0 THEN TRUE
    ELSE LET e == links(Tail(path), 1, cost, c.lifetime,
                        [total_cost |-> 0, t |-> 0,
                         minimum_link_lifetime |-> NO_LINK_LIFETIME])
             d == dijkstra(cost, c.me, c.dst, c.lifetime, e.minimum_link_lifetime)
         IN  /\ d.path # path
             /\ LinksOutlive(d.path, c.lifetime, e.minimum_link_lifetime)
             /\ PassesDiffer(d.cost, d.path, c, passes - 1)

\* C33: at the source of a packet routed by Opar, a pass of dijkstra with any
\* threshold returns a path whose links all have a predicted lifetime above
\* the threshold, and every pass of the while loop, run with the shortest link
\* lifetime of the path before it, returns a different path or the empty one
C33_PassesAboveThreshold ==
    (call.variant = "opar" /\ call.src = call.me) =>
       /\ \A threshold \in 0 .. MaxLifetime :
             LinksOutlive(dijkstra(calculate_cost_matrix(call.position), call.me,
                                   call.dst, call.lifetime, threshold).path,
                          call.lifetime, threshold)
       /\ LET d == dijkstra(calculate_cost_matrix(call.position), call.me, call.dst,
                            call.lifetime, 0)
          IN  PassesDiffer(d.cost, d.path, call, MaxLifetime + 1)

\* Opar has selected at the source: the first path was the direct link, the
\* second pass found the path over the third drone, whose links live longer,
\* and the third pass found none
C33_Witness ==
    /\ call.variant = "opar" /\ call.src = call.me /\ outcome.done
    /\ LET first  == dijkstra(calculate_cost_matrix(call.position), call.me, call.dst,
                              call.lifetime, 0)
           e1     == links(Tail(first.path), 1, first.cost, call.lifetime,
                           [total_cost |-> 0, t |-> 0,
                            minimum_link_lifetime |-> NO_LINK_LIFETIME])
           second == dijkstra(first.cost, call.me, call.dst, call.lifetime,
                              e1.minimum_link_lifetime)
           e2     == links(Tail(second.path), 1, second.cost, call.lifetime,
                           [total_cost |-> 0, t |-> 0,
                            minimum_link_lifetime |-> NO_LINK_LIFETIME])
           third  == dijkstra(second.cost, call.me, call.dst, call.lifetime,
                              e2.minimum_link_lifetime)
       IN  /\ Len(first.path) = 3
           /\ Len(second.path) = 4
           /\ e2.minimum_link_lifetime > e1.minimum_link_lifetime
           /\ third.path = << >>

----------------------------------------------------------------------------
(* Properties of the inbox *)

\* the records of an inbox that trigger has not marked
Unprocessed(box) == SelectSeq(box, LAMBDA item : item.processed = 0)

\* C34: every tick of receive leaves, after its update_inbox, no record in the
\* inbox that is marked processed and whose insertion is more than twice the
\* transmitting time of a data packet ago, and removes no unprocessed record
C34_InboxPruned ==
    [][ \A n \in Nodes :
          (/\ recv_pc[n] = "tick" /\ recv_timeout[n] = now /\ ~sleep[n]
           /\ recv_timeout'[n] # recv_timeout[n]) =>
             LET box == update_inbox(frames[n], now)
             IN  /\ Len(frames'[n]) = Len(box)
                 /\ Unprocessed(box) = Unprocessed(frames[n])
                 /\ \A i \in 1 .. Len(box) :
                       ~ /\ box[i].processed = 1
                         /\ box[i].insertion_time + 2 * DATA_PACKET_LENGTH < now
      ]_vars

----------------------------------------------------------------------------
(* Properties of the channel resources *)

\* C35: two drones that are within SENSING_RANGE of each other never hold
\* their channel_states resource at the same time
C35_TokensExclusive ==
    \A a \in Nodes : \A b \in Nodes \ {a} :
       euclidean_distance(coords[a], coords[b]) < SENSING_RANGE =>
          ~ /\ Len(channel_states[a].users) # 0
            /\ Len(channel_states[b].users) # 0

----------------------------------------------------------------------------
(* Properties of the sends of a drone and their listeners *)

\* C36: a drone has at most one mac_send in progress; the key made of
\* mac_process_count is the key of the only send not marked finished, which
\* is the send that waits for the channel or counts down; a listener that is
\* still in its loop has that key; and every interrupt a listener has raised
\* hit the countdown of the send of the listener's own key, not marked
\* finished
C36_OneSendAndItsListener ==
    /\ outcome.in_progress <= 1
    /\ Len(outcome.mac_process_finish) = outcome.mac_process_count
    /\ \A key \in 1 .. outcome.mac_process_count :
          outcome.mac_process_finish[key] = 0 <=>
             (key = outcome.mac_process_count /\ outcome.pc \in {"wait_idle", "countdown"})
    /\ \A l \in outcome.listeners :
          outcome.mac_process_finish[l.key] = 0 =>
             l.key = outcome.mac_process_count /\ outcome.pc = "countdown"
    /\ \A i \in outcome.interrupted :
          i.listener = i.key /\ i.finish = 0 /\ i.pc = "countdown"

\* the listener of an earlier send is still alive while a later send, whose
\* countdown a listener has interrupted before, is transmitting on a busy
\* channel
C36_Witness ==
    /\ outcome.pc = "transmit" /\ outcome.busy
    /\ \E l \in outcome.listeners : l.key < outcome.mac_process_count
    /\ \E i \in outcome.interrupted : i.key = outcome.mac_process_count

----------------------------------------------------------------------------
(* Properties of the report *)

\* C40: whenever print_metrics has been called at the horizon, it has ended
\* in the report and has raised nothing
C40_ReportCompletes == outcome.done => outcome.raised = "none"

----------------------------------------------------------------------------
(* Properties of the neighbour table *)

\* C39: no drone is a key of its own neighbour table, and no data packet that
\* a drone is sending after next_hop_selection found a route names the drone
\* itself as next hop
C39_NeverOwnNeighbor ==
    \A n \in Nodes :
       /\ ~Contains(neighbor_table[n], n)
       /\ (sending[n].kind = "data" /\ feed_pc[n] # "tick") => sending[n].next_hop_id # n

====
